---- MODULE Spec2Model ----
(***************************************************************************)
(* Model of the reactive collection / reactive document lifecycle engine   *)
(* (src/modules/ReactiveCollection.ts, src/modules/ReactiveDocument.ts,    *)
(* src/modules/ReactiveProperty.ts) driven by the PhonebookEntry style     *)
(* concrete documents of src/test/test.ts.                                 *)
(*                                                                         *)
(* The JavaScript run-to-completion semantics is modelled explicitly:      *)
(*   - micro : the FIFO queue of promise jobs (native Promise reactions);  *)
(*   - ticks : the FIFO queue of Q.nextTick tasks (the Q deferred _d);     *)
(* every handler of the source is a pure operator from a state record to   *)
(* a state record, so that a handler that synchronously calls another      *)
(* handler (emit -> listener -> doneCb -> collection emit) is one step.    *)
(* Q schedules its tasks with process.nextTick; the host serves them once   *)
(* the promise job queue has drained, each queue in FIFO order.            *)
(* Caller code (continuations, timers, handlers) may run between any two   *)
(* jobs.                                                                   *)
(***************************************************************************)
EXTENDS Integers, Sequences, FiniteSets, TLC

\* ---------------------------------------------------------------- bounds
MaxAlloc == 2      \* number of _addEntry calls explored
MaxOps == 1        \* number of other caller operations explored
MaxDocOps == 2     \* caller operations on the document of DocSpec
MaxSubs == 1       \* listeners subscribed on the document of DocSpec

\* ------------------------------------------------------------- constants
EmptyKey == ""                      \* the key PhonebookEntry rejects
Keys == {EmptyKey, "a", "b"}
LengthKey == "length"               \* own property of every Array
DbKeys == Keys \cup {LengthKey}     \* the property names of _db explored
NotAnEntry == -1                    \* an own property holding no IDBEntry
Modes == {"ready", "wait"}          \* _resolved() in the constructor, or later
\* the arguments of an _addEntry call: a key and the concrete document's mode
AllocArgs == {<<EmptyKey, "ready">>} \cup (({"a", "b"}) \X Modes)
Undef == 0                          \* JavaScript undefined for a field
Female == 1                         \* the gender passed to the constructor
AgeVals == {30}
Boom == "boom"                      \* an Error raised by the entry itself
Bang == "bang"                      \* an Error sent on the parent channel
ErrExists == "exists"               \* `Entry ${key} already exists`
ErrCtor == "ctor"                   \* "name must be provided"

VARIABLES
    db,       \* ReactiveCollection._db (an Array) : property name -> entry id
              \* (0 = no own property, NotAnEntry = the Array's own length)
    ents,     \* the documents constructed so far, indexed by entry id
    calls,    \* the _addEntry calls and the state of the promise each returned
    micro,    \* promise job queue
    ticks,    \* Q.nextTick queue
    cev,      \* emissions on the collection's _ee, in order
    dels,     \* _emitDelete calls whose removeAllListeners continuation is due
    rdy,      \* entry ids in the order their deferred _d was resolved
    pful,     \* entry ids in the order their promise _promise fulfilled
    eev,      \* invocations of the subscribers' handlers on the entries' _ee
    nreg,     \* handlers subscribed so far (the next one gets id nreg + 1)
    hnd,      \* the unsubscribe closures returned so far, by registration id
    clst,     \* the listeners of the collection's own _ee
    objs,     \* documents constructed on their own (ObjSpec), by class
    rslv,     \* the _resolveEntry calls and what each resolved to
    its,      \* the generators items() has returned
    disp,     \* the disposal of the collection
    emits,    \* the _emitEntry calls of EmitSpec and how each ended
    rdoc,     \* a document whose deferred is replaced (ResetSpec)
    reads,    \* the read-only calls made in ReadSpec and what each returned
    legacy,   \* the StorageService of LegacySpec and its items
    nops      \* caller operations performed

vars == <<db, ents, calls, micro, ticks, cev, dels, rdy, pful, eev, nreg,
          hnd, clst, objs, rslv, its, disp, emits, rdoc, reads, legacy,
          nops>>

\* The mutable program state as one record, threaded through the handlers.
St == [db |-> db, ents |-> ents, calls |-> calls, micro |-> micro,
       ticks |-> ticks, cev |-> cev, dels |-> dels, rdy |-> rdy,
       pful |-> pful, eev |-> eev, nreg |-> nreg, hnd |-> hnd,
       clst |-> clst, objs |-> objs, rslv |-> rslv, its |-> its,
       disp |-> disp, emits |-> emits, rdoc |-> rdoc,
       reads |-> reads, legacy |-> legacy]

Apply(S) ==
    /\ db' = S.db
    /\ ents' = S.ents
    /\ calls' = S.calls
    /\ micro' = S.micro
    /\ ticks' = S.ticks
    /\ cev' = S.cev
    /\ dels' = S.dels
    /\ rdy' = S.rdy
    /\ pful' = S.pful
    /\ eev' = S.eev
    /\ nreg' = S.nreg
    /\ hnd' = S.hnd
    /\ clst' = S.clst
    /\ objs' = S.objs
    /\ rslv' = S.rslv
    /\ its' = S.its
    /\ disp' = S.disp
    /\ emits' = S.emits
    /\ rdoc' = S.rdoc
    /\ reads' = S.reads
    /\ legacy' = S.legacy

\* A queued job / promise reaction / event payload (one record shape).
Job(t, e) == [t |-> t, e |-> e, ev |-> "", key |-> "", field |-> "",
              value |-> 0, err |-> "", found |-> FALSE]

NoFields == [gender |-> Undef, age |-> Undef]

\* ------------------------------------------------------- ReactiveDocument

\* ReactiveDocument.getState / read: key plus the live reactive fields.
getState(S, e) == S.ents[e].fields

\* ReactiveDocument.isPending
isPending(S, e) == S.ents[e].d = "pending"

\* Settling the Q deferred _d: the thens already attached are dispatched on
\* a later Q tick.  atReady remembers the fields held at that moment.
SettleD(S, e, st, err) ==
    LET S1 == [S EXCEPT !.ents[e].d = st, !.ents[e].derr = err,
                        !.ents[e].atReady = S.ents[e].fields]
    IN IF S.ents[e].attached
       THEN [S1 EXCEPT !.ticks = Append(@, Job("qdispatch", e))]
       ELSE S1

\* _resolved without its isPending guard.
resolved_NoGuard(S, e) ==
    [SettleD(S, e, "fulfilled", "") EXCEPT
        !.rdy = Append(@, e),
        !.ents[e].atReady = S.ents[e].fields]

\* ReactiveDocument._resolved
resolved(S, e) ==
    IF ~isPending(S, e) THEN S
    ELSE [SettleD(S, e, "fulfilled", "") EXCEPT
             !.rdy = Append(@, e),
             !.ents[e].atReady = S.ents[e].fields]

\* o.item.promise.then(r): a reaction on the native promise _promise.
PromiseThen(S, e, r) ==
    CASE S.ents[e].p = "pending" ->
            [S EXCEPT !.ents[e].preact = Append(@, r)]
      [] S.ents[e].p = "fulfilled" ->
            [S EXCEPT !.micro = Append(@, r)]
      [] OTHER ->
            IF r.t = "insert"
            THEN [S EXCEPT !.micro = Append(@, [r EXCEPT !.t = "insertRej"])]
            ELSE S

\* An emitter that keeps invoking the listeners taken off it: every
\* handler ever registered on the collection for ev is invoked.
CollEmit_Stale(S, ev, e, snap, j) ==
    LET rs == SelectSeq([r \in 1..Len(S.hnd) |-> r],
                        LAMBDA r : S.hnd[r].e = 0 /\ S.hnd[r].ev = ev)
    IN [S EXCEPT !.cev = Append(@,
            [ev |-> ev, id |-> e, key |-> S.ents[e].key, snap |-> snap,
             field |-> j.field, value |-> j.value, err |-> j.err,
             present |-> S.db[S.ents[e].key] # 0]),
                 !.eev = @ \o [i \in 1..Len(rs) |->
                     [e |-> 0, lid |-> rs[i], ev |-> ev,
                      key |-> S.ents[e].key, field |-> j.field,
                      value |-> j.value, err |-> j.err]]]

\* The collection's emitAsync(ev, ...) on its own _ee.  The listeners run
\* synchronously inside the call, so `present` is what hasEntry(key) yields
\* when it is evaluated by a handler of this announcement.
CollEmit(S, ev, e, snap, j) ==
    LET ls == SelectSeq(S.clst, LAMBDA l : l.ev = ev)
    IN [S EXCEPT !.cev = Append(@,
            [ev |-> ev, id |-> e, key |-> S.ents[e].key, snap |-> snap,
             field |-> j.field, value |-> j.value, err |-> j.err,
             present |-> S.db[S.ents[e].key] # 0]),
                 !.eev = @ \o [i \in 1..Len(ls) |->
                     [e |-> 0, lid |-> ls[i].id, ev |-> ev,
                      key |-> S.ents[e].key, field |-> j.field,
                      value |-> j.value, err |-> j.err]]]

\* doneCb that forgets `delete this._db[key]`.
doneCb_KeepsKey(S, e) ==
    IF S.ents[e].resolved
    THEN CollEmit(S, "delete", e, NoFields, Job("delete", e))
    ELSE S

\* doneCb that announces "delete" before it removes the key.
doneCb_EmitFirst(S, e) ==
    LET S1 == IF S.ents[e].resolved
              THEN CollEmit(S, "delete", e, NoFields, Job("delete", e))
              ELSE S
    IN [S1 EXCEPT !.db[S.ents[e].key] = 0]

\* doneCb of ReactiveCollection._addEntry.
doneCb(S, e) ==
    LET S1 == [S EXCEPT !.db[S.ents[e].key] = 0]
    IN IF S1.ents[e].resolved
       THEN CollEmit(S1, "delete", e, NoFields, Job("delete", e))
       ELSE S1

\* The forwarding listeners announcing at once, without o.item.promise.
Invoke_FwdNow(S, e, l, j) ==
    CASE l.h \in {"fwdError", "fwdUpdate"} -> CollEmit(S, j.ev, e, NoFields, j)
      [] l.h = "doneCb" -> doneCb(S, e)
      [] l.h = "user" ->
            [S EXCEPT !.eev = Append(@,
                [e |-> e, lid |-> l.id, ev |-> j.ev, key |-> j.key,
                 field |-> j.field, value |-> j.value, err |-> j.err])]
      [] OTHER -> S

\* The update listener announcing at once, the error listener through
\* o.item.promise.
Invoke_UpdateNow(S, e, l, j) ==
    CASE l.h = "fwdError" -> PromiseThen(S, e, [j EXCEPT !.t = "fwd"])
      [] l.h = "fwdUpdate" -> CollEmit(S, j.ev, e, NoFields, j)
      [] l.h = "doneCb" -> doneCb(S, e)
      [] l.h = "user" ->
            [S EXCEPT !.eev = Append(@,
                [e |-> e, lid |-> l.id, ev |-> j.ev, key |-> j.key,
                 field |-> j.field, value |-> j.value, err |-> j.err])]
      [] OTHER -> S

\* One listener of the entry's _ee invoked with payload j.  A handler
\* subscribed through onUpdate / onError / onDelete only observes.
Invoke(S, e, l, j) ==
    CASE l.h = "fwdError" -> PromiseThen(S, e, [j EXCEPT !.t = "fwd"])
      [] l.h = "fwdUpdate" -> PromiseThen(S, e, [j EXCEPT !.t = "fwd"])
      [] l.h = "doneCb" -> doneCb(S, e)
      [] l.h = "user" ->
            [S EXCEPT !.eev = Append(@,
                [e |-> e, lid |-> l.id, ev |-> j.ev, key |-> j.key,
                 field |-> j.field, value |-> j.value, err |-> j.err])]
      [] OTHER -> S

RECURSIVE Deliver(_, _, _, _, _)
Deliver(S, e, ls, i, j) ==
    IF i > Len(ls) THEN S
    ELSE Deliver(Invoke(S, e, ls[i], j), e, ls, i + 1, j)

\* this._ee.emitAsync(ev, payload) on the entry: the listeners registered
\* for ev at the time of the call are invoked in registration order.
EntryEmit(S, e, j) ==
    Deliver(S, e, SelectSeq(S.ents[e].lst, LAMBDA l : l.ev = j.ev), 1, j)

\* the ids of the subscribed handlers of entry e listening for ev
UserIds(S, e, ev) ==
    {S.ents[e].lst[i].id :
        i \in {n \in 1..Len(S.ents[e].lst) :
                  S.ents[e].lst[n].h = "user" /\ S.ents[e].lst[n].ev = ev}}

\* ReactiveDocument._emitDelete: emit "delete", then (once the emission has
\* completed) removeAllListeners.  The record of the call remembers the
\* handlers subscribed for "delete" when it was made (to) and, once its
\* continuation has run, how many handlers had been subscribed (upto) and
\* how many invocations had been made (seen) by then.
emitDelete(S, e, src) ==
    LET S1 == EntryEmit(S, e, [Job("emit", e) EXCEPT !.ev = "delete",
                                                    !.key = S.ents[e].key])
    IN [S1 EXCEPT !.dels = Append(@, [e |-> e, src |-> src, done |-> FALSE,
                                      to |-> UserIds(S, e, "delete"),
                                      upto |-> 0, seen |-> 0])]

\* The continuation of _emitDelete leaving the listeners in place.
deleteDone_KeepsListeners(S, i) ==
    [S EXCEPT !.dels[i].done = TRUE,
              !.dels[i].upto = S.nreg, !.dels[i].seen = Len(S.eev)]

\* The continuation of _emitDelete: this._ee.removeAllListeners().
deleteDone(S, i) ==
    [S EXCEPT !.ents[S.dels[i].e].lst = <<>>, !.dels[i].done = TRUE,
              !.dels[i].upto = S.nreg, !.dels[i].seen = Len(S.eev)]

\* _emitError that disposes of the entry in every state.
emitError_AlwaysDispose(S, e, err) ==
    IF isPending(S, e)
    THEN emitDelete(SettleD(S, e, "rejected", err), e, "error")
    ELSE emitDelete(EntryEmit(S, e, [Job("emit", e) EXCEPT
                                        !.ev = "error",
                                        !.key = S.ents[e].key,
                                        !.err = err]), e, "error")

\* _emitError that rejects a Pending entry and leaves it at that.
emitError_NoDispose(S, e, err) ==
    IF isPending(S, e)
    THEN SettleD(S, e, "rejected", err)
    ELSE EntryEmit(S, e, [Job("emit", e) EXCEPT !.ev = "error",
                                               !.key = S.ents[e].key,
                                               !.err = err])

\* ReactiveDocument._emitError
emitError(S, e, err) ==
    IF isPending(S, e)
    THEN emitDelete(SettleD(S, e, "rejected", err), e, "error")
    ELSE EntryEmit(S, e, [Job("emit", e) EXCEPT !.ev = "error",
                                               !.key = S.ents[e].key,
                                               !.err = err])

\* the document that listens on "error" only for as long as it is Pending
peeEmit_PendingOnly(S, e, ev, err) ==
    CASE ev = "error" -> IF isPending(S, e) THEN emitError(S, e, err) ELSE S
      [] ev = "delete" -> emitDelete(S, e, "parent")
      [] OTHER -> S

\* An emission on the parent channel _pee of entry e: the two listeners the
\* ReactiveDocument constructor registered on it.
peeEmit(S, e, ev, err) ==
    CASE ev = "error" -> emitError(S, e, err)
      [] ev = "delete" -> emitDelete(S, e, "parent")
      [] OTHER -> S

\* descriptor.set without the comparison with the value held.
setField_NoGuard(S, e, f, v) ==
    EntryEmit([S EXCEPT !.ents[e].fields[f] = v], e,
              [Job("emit", e) EXCEPT !.ev = "update",
                                     !.key = S.ents[e].key,
                                     !.field = f, !.value = v])

\* descriptor.set with one emitter for all the documents of the class (an
\* _ee held by the prototype): every document's listeners are invoked.
RECURSIVE EmitAll(_, _, _)
EmitAll(S, n, j) ==
    IF n = 0 THEN S ELSE EntryEmit(EmitAll(S, n - 1, j), n, j)

setField_Static(S, e, f, v) ==
    IF v = S.ents[e].fields[f] THEN S
    ELSE EmitAll([S EXCEPT !.ents[e].fields[f] = v], Len(S.ents),
                 [Job("emit", e) EXCEPT !.ev = "update",
                                        !.key = S.ents[e].key,
                                        !.field = f, !.value = v])

\* ReactiveProperty: descriptor.set
setField(S, e, f, v) ==
    IF v = S.ents[e].fields[f] THEN S
    ELSE EntryEmit([S EXCEPT !.ents[e].fields[f] = v], e,
                   [Job("emit", e) EXCEPT !.ev = "update",
                                          !.key = S.ents[e].key,
                                          !.field = f, !.value = v])

\* PhonebookEntry constructor: throws on an empty name.
NewEntryThrows(key) == key = EmptyKey

\* A document to which the collection already listens while its constructor
\* runs.
newEntry_ListenFirst(S, key, mode) ==
    LET id == Len(S.ents) + 1
        rec == [key |-> key, mode |-> mode, d |-> "pending", derr |-> "",
                attached |-> FALSE, p |-> "pending", preact |-> <<>>,
                fields |-> NoFields, atReady |-> NoFields,
                lst |-> << [ev |-> "update", h |-> "fwdUpdate"] >>,
                resolved |-> FALSE]
        S1 == [S EXCEPT !.ents = Append(@, rec),
                        !.micro = Append(@, Job("thenable", id))]
        S2 == setField(S1, id, "gender", Female)
    IN IF mode = "ready" THEN resolved(S2, id) ELSE S2

\* new PhonebookEntry(pee, key, gender): the ReactiveDocument constructor
\* creates _d and _promise (whose adoption of _d.promise is a promise job),
\* then the concrete constructor sets its fields and, in mode "ready",
\* calls _resolved().
newEntry(S, key, mode) ==
    LET id == Len(S.ents) + 1
        rec == [key |-> key, mode |-> mode, d |-> "pending", derr |-> "",
                attached |-> FALSE, p |-> "pending", preact |-> <<>>,
                fields |-> NoFields, atReady |-> NoFields, lst |-> <<>>,
                resolved |-> FALSE]
        S1 == [S EXCEPT !.ents = Append(@, rec),
                        !.micro = Append(@, Job("thenable", id))]
        S2 == setField(S1, id, "gender", Female)
    IN IF mode = "ready" THEN resolved(S2, id) ELSE S2

\* ----------------------------------------------------- ReactiveCollection

\* ReactiveCollection.hasEntry: the executor runs synchronously.
hasEntry(S, key) == S.db[key] # 0

\* The enumerable own properties of _db that `for (key in this._db)` visits
\* (the Array's length is not enumerable), oldest stored entry first.
RECURSIVE DbOrder(_, _)
DbOrder(S, ks) ==
    IF ks = {} THEN <<>>
    ELSE LET k == CHOOSE x \in ks : \A y \in ks : S.db[x] <= S.db[y]
         IN <<k>> \o DbOrder(S, ks \ {k})

ownKeys(S) == DbOrder(S, {k \in Keys : S.db[k] > 0})

\* ReactiveCollection.items run to its end at once: the items it yields.
items(S) == [i \in 1..Len(ownKeys(S)) |-> S.db[ownKeys(S)[i]]]

\* ReactiveCollection.read: results[doc.key] = doc.read() for every item.
read(S) ==
    [k \in {S.ents[items(S)[i]].key : i \in 1..Len(items(S))} |->
        LET e == CHOOSE x \in {items(S)[i] : i \in 1..Len(items(S))} :
                     S.ents[x].key = k
        IN [key |-> k, gender |-> getState(S, e).gender,
            age |-> getState(S, e).age]]

\* A call of items(): a generator that has not run yet.  at remembers the
\* entries in the map at the call.
itemsCall(S) ==
    [S EXCEPT !.its = Append(@,
        [started |-> FALSE, keys |-> <<>>, pos |-> 0, out |-> <<>>,
         done |-> FALSE,
         at |-> {items(S)[n] : n \in 1..Len(items(S))}])]

\* next() on generator i: the body of items() runs up to its next yield.
\* `for (key in this._db)` enumerates the keys the map has when the loop
\* is entered, and passes over a key that is deleted before it is reached.
itemsNext(S, i) ==
    LET it == S.its[i]
        keys == IF it.started THEN it.keys ELSE ownKeys(S)
        cand == {p \in (it.pos + 1)..Len(keys) : S.db[keys[p]] > 0}
    IN IF cand = {}
       THEN [S EXCEPT !.its[i].started = TRUE, !.its[i].keys = keys,
                      !.its[i].pos = Len(keys), !.its[i].done = TRUE]
       ELSE LET p == CHOOSE x \in cand : \A y \in cand : x <= y
            IN [S EXCEPT !.its[i].started = TRUE, !.its[i].keys = keys,
                         !.its[i].pos = p,
                         !.its[i].out = Append(@, S.db[keys[p]])]

\* _addEntry that constructs without looking at the outcome of hasEntry.
addEntryJob_NoGuard(S, c) ==
    LET key == S.calls[c].key
        id == Len(S.ents) + 1
    IN IF NewEntryThrows(key)
       THEN [S EXCEPT !.calls[c].st = "rejected", !.calls[c].err = ErrCtor]
       ELSE LET S1 == newEntry(S, key, S.calls[c].mode)
                S2 == [S1 EXCEPT !.db[key] = id]
                S3 == [S2 EXCEPT !.ents[id].lst = @ \o
                          << [ev |-> "error", h |-> "fwdError"],
                             [ev |-> "update", h |-> "fwdUpdate"] >>]
                S4 == PromiseThen(S3, id, Job("insert", id))
            IN [S4 EXCEPT !.calls[c].st = "fulfilled", !.calls[c].val = id]

\* _addEntry that reserves the key before it calls the factory.
addEntryJob_StoreFirst(S, c) ==
    LET key == S.calls[c].key
        id == Len(S.ents) + 1
    IN IF S.calls[c].found
       THEN [S EXCEPT !.calls[c].st = "rejected", !.calls[c].err = ErrExists]
       ELSE IF NewEntryThrows(key)
       THEN [S EXCEPT !.db[key] = id,
                      !.calls[c].st = "rejected", !.calls[c].err = ErrCtor]
       ELSE LET S1 == newEntry(S, key, S.calls[c].mode)
                S2 == [S1 EXCEPT !.db[key] = id]
                S3 == [S2 EXCEPT !.ents[id].lst = @ \o
                          << [ev |-> "error", h |-> "fwdError"],
                             [ev |-> "update", h |-> "fwdUpdate"] >>]
                S4 == PromiseThen(S3, id, Job("insert", id))
            IN [S4 EXCEPT !.calls[c].st = "fulfilled", !.calls[c].val = id]

\* The reaction of _addEntry on the hasEntry promise (both callbacks).
\* A constructor that throws leaves behind only an unreachable document,
\* which is not recorded.
addEntryJob(S, c) ==
    LET key == S.calls[c].key
        id == Len(S.ents) + 1
    IN IF S.calls[c].found
       THEN [S EXCEPT !.calls[c].st = "rejected", !.calls[c].err = ErrExists]
       ELSE IF NewEntryThrows(key)
       THEN [S EXCEPT !.calls[c].st = "rejected", !.calls[c].err = ErrCtor]
       ELSE LET S1 == newEntry(S, key, S.calls[c].mode)
                S2 == [S1 EXCEPT !.db[key] = id]
                S3 == [S2 EXCEPT !.ents[id].lst = @ \o
                          << [ev |-> "error", h |-> "fwdError"],
                             [ev |-> "update", h |-> "fwdUpdate"] >>]
                S4 == PromiseThen(S3, id, Job("insert", id))
            IN [S4 EXCEPT !.calls[c].st = "fulfilled", !.calls[c].val = id]

\* The fulfilment reaction announcing "insert" without reading the entry.
insertJob_EmptySnapshot(S, e) ==
    LET S1 == [S EXCEPT !.ents[e].resolved = TRUE,
                        !.ents[e].lst = Append(@, [ev |-> "delete",
                                                   h |-> "doneCb"])]
    IN CollEmit(S1, "insert", e, NoFields, Job("insert", e))

\* The fulfilment reaction of o.item.promise in _addEntry.
insertJob(S, e) ==
    LET S1 == [S EXCEPT !.ents[e].resolved = TRUE,
                        !.ents[e].lst = Append(@, [ev |-> "delete",
                                                   h |-> "doneCb"])]
    IN CollEmit(S1, "insert", e, getState(S1, e), Job("insert", e))

\* The rejection reaction of o.item.promise in _addEntry.
insertRejJob(S, e) == doneCb(S, e)

\* The forwarding reaction announcing the object twice.
fwdJob_Twice(S, j) ==
    LET S1 == CollEmit(S, j.ev, j.e, NoFields, j)
        S2 == [S1 EXCEPT !.cev[Len(S1.cev)].key = j.key]
    IN [S2 EXCEPT !.cev = Append(@, S2.cev[Len(S2.cev)])]

\* The reaction registered by the forwarding listeners: the collection
\* announces the very object the entry emitted.
fwdJob(S, j) ==
    LET S1 == CollEmit(S, j.ev, j.e, NoFields, j)
    IN [S1 EXCEPT !.cev[Len(S1.cev)].key = j.key]

\* The promise of _emitEntry call c settles (c = 0: a call that is not
\* followed).
emitSettles(S, c, st, e) ==
    IF c = 0 THEN S
    ELSE [S EXCEPT !.emits[c].st = st, !.emits[c].to = e]

\* _getEntry: hasEntry(key).then(() => this._db[key]); the rejection of
\* hasEntry is the outcome of the call.
getEntryJob(S, j) ==
    IF j.found
    THEN [S EXCEPT !.micro = Append(@, [j EXCEPT !.t = "emitEntry",
                                                 !.e = S.db[j.key]])]
    ELSE emitSettles(S, j.value, "NotFound", 0)

\* _emitEntry: entry.ee.emitAsync(eventName, ...) on the parent channel of
\* the entry.  Where _db[key] holds no IDBEntry (the key was deleted in the
\* meantime, or is the Array's length) entry.ee.emitAsync throws a
\* TypeError.
emitEntryJob(S, j) ==
    IF j.e <= 0 THEN emitSettles(S, j.value, "TypeError", 0)
    ELSE emitSettles(peeEmit(S, j.e, j.ev, j.err),
                     j.value, "delivered", j.e)

\* _emitEntry(key, ev, ...) / _emitEntryError(key, err) up to its return,
\* the call being followed as emits[c]; `at` is the entry stored under
\* the key at the call (0: none).
emitEntry(S, k, ev) ==
    LET c == Len(S.emits) + 1
    IN [S EXCEPT !.emits = Append(@, [key |-> k, ev |-> ev,
                                      at |-> IF S.db[k] > 0 THEN S.db[k]
                                             ELSE 0,
                                      st |-> "pending", to |-> 0]),
                 !.micro = Append(@,
                     [Job("getEntry", 0) EXCEPT !.key = k, !.ev = ev,
                                                !.err = Bang, !.value = c,
                                                !.found = hasEntry(S, k)])]

\* _addEntry(key, ...) up to its return: hasEntry is evaluated at once, the
\* two callbacks are a reaction of the promise it returned.
addEntry(S, k, m) ==
    LET c == Len(S.calls) + 1
        rec == [key |-> k, mode |-> m, found |-> hasEntry(S, k),
                st |-> "pending", val |-> 0, err |-> "",
                rivals |-> {i \in 1..Len(S.calls) :
                               /\ S.calls[i].st = "pending"
                               /\ S.calls[i].key = k}]
    IN [S EXCEPT !.calls = Append(@, rec),
                 !.micro = Append(@, Job("addEntry", c))]

\* _resolveEntry(key, ...) up to its return: getEntry(key), that is
\* hasEntry(key).then(() => this._db[key]).then(e => e.item), and the
\* reaction of _resolveEntry on it.  j.e is the call, j.found whether the
\* promise the job reacts to is fulfilled, j.value what it is fulfilled with.
resolveEntry(S, k, m) ==
    LET r == Len(S.rslv) + 1
    IN [S EXCEPT !.rslv = Append(@, [key |-> k, mode |-> m,
                                     found |-> hasEntry(S, k),
                                     st |-> "pending", val |-> 0, via |-> 0]),
                 !.micro = Append(@, [Job("rslvRead", r) EXCEPT
                                         !.key = k,
                                         !.found = hasEntry(S, k)])]

\* _getEntry's reaction: () => this._db[key]
rslvReadJob(S, j) ==
    [S EXCEPT !.micro = Append(@, [j EXCEPT !.t = "rslvItem",
                                     !.value = IF j.found THEN S.db[j.key]
                                               ELSE 0])]

\* getEntry's reaction: e => e.item, which throws when e is undefined
rslvItemJob(S, j) ==
    [S EXCEPT !.micro = Append(@, [j EXCEPT !.t = "rslvDone",
                                     !.found = j.found /\ j.value > 0])]

\* _resolveEntry's reaction: the entry found, or _allocateEntry(key, ...)
rslvDoneJob(S, j) ==
    IF j.found
    THEN [S EXCEPT !.rslv[j.e].st = "got", !.rslv[j.e].val = j.value]
    ELSE [addEntry(S, j.key, S.rslv[j.e].mode) EXCEPT
             !.rslv[j.e].st = "alloc",
             !.rslv[j.e].via = Len(S.calls) + 1]

\* ------------------------------------------ StorageService / StorageItem
\* The storage service that came before ReactiveCollection, with one key:
\* legacy.db is the item stored under it (0: none), legacy.items the
\* items constructed, legacy.added and legacy.removed the items announced
\* by 'added' and 'removed', in order.  Its promises are Q promises, whose
\* callbacks run on Q ticks.

\* doneCb of StorageService._addEntry, made for item i
lgDoneCb(S, i) ==
    [S EXCEPT !.legacy.db = 0, !.legacy.removed = Append(@, i)]

\* _addEntry(key, ...) up to its return: hasEntry(key) settles at once,
\* the two callbacks run on a Q tick.
lgAddEntry(S) ==
    LET c == Len(S.legacy.calls) + 1
    IN [S EXCEPT !.legacy.calls = Append(@, [found |-> S.legacy.db # 0,
                                             st |-> "pending", val |-> 0]),
                 !.ticks = Append(@, Job("lgAdd", c))]

\* The callbacks of _addEntry: throw when the key exists; otherwise
\* construct the item, store it, announce 'added', o.item.onClose(doneCb)
\* (a once listener) and o.item.promise.catch(...).
lgAddTick(S, c) ==
    LET id == Len(S.legacy.items) + 1
    IN IF S.legacy.calls[c].found
       THEN [S EXCEPT !.legacy.calls[c].st = "rejected"]
       ELSE [S EXCEPT !.legacy.items = Append(@,
                          [d |-> "pending", attached |-> FALSE,
                           lst |-> TRUE, closed |-> FALSE,
                           caught |-> FALSE]),
                      !.legacy.db = id,
                      !.legacy.added = Append(@, id),
                      !.legacy.calls[c].st = "fulfilled",
                      !.legacy.calls[c].val = id,
                      !.ticks = Append(@, Job("lgThen", id))]

\* Q then of o.item.promise.catch: attach while pending, dispatch the
\* rejection later once settled.
lgThenTick(S, i) ==
    CASE S.legacy.items[i].d = "pending" ->
            [S EXCEPT !.legacy.items[i].attached = TRUE]
      [] S.legacy.items[i].d = "rejected" ->
            [S EXCEPT !.ticks = Append(@, Job("lgCatch", i))]
      [] OTHER -> S

\* The rejection callback of o.item.promise.catch: doneCb(); throw objErr
lgCatchTick(S, i) ==
    lgDoneCb([S EXCEPT !.legacy.items[i].caught = TRUE], i)

\* StorageItem._emitClose: this._ee.emit("close"); the listener added by
\* onClose with once is taken off before it is invoked.
lgEmitClose(S, i) ==
    LET S1 == [S EXCEPT !.legacy.items[i].closed = TRUE]
    IN IF S.legacy.items[i].lst
       THEN lgDoneCb([S1 EXCEPT !.legacy.items[i].lst = FALSE], i)
       ELSE S1

\* StorageItem._emitError: a pending item rejects its deferred and
\* returns; otherwise "error" is emitted on the item's _ee, to which the
\* service does not listen.
lgEmitError(S, i) ==
    IF S.legacy.items[i].d # "pending" THEN S
    ELSE LET S1 == [S EXCEPT !.legacy.items[i].d = "rejected"]
         IN IF S.legacy.items[i].attached
            THEN [S1 EXCEPT !.ticks = Append(@, Job("lgCatch", i))]
            ELSE S1

\* StorageItem._resolved
lgResolved(S, i) ==
    IF S.legacy.items[i].d # "pending" THEN S
    ELSE [S EXCEPT !.legacy.items[i].d = "fulfilled"]

\* --------------------------------------------------- the read-only calls
\* Each call is followed as reads[c]: what was called, on what, and what
\* it returned (for a promise: how it settled and with which entry).

readCall(S, op, key, st, val) ==
    [S EXCEPT !.reads = Append(@, [op |-> op, key |-> key, st |-> st,
                                   val |-> val])]

\* hasEntry(key) as a call: the promise it returns is settled at once.
hasEntryCall(S, key) ==
    readCall(S, "hasEntry", key,
             IF hasEntry(S, key) THEN "fulfilled" ELSE "rejected", 0)

\* getEntry(key): _getEntry(key).then(e => e.item)
getEntryCall(S, key) ==
    LET c == Len(S.reads) + 1
        S1 == readCall(S, "getEntry", key, "pending", 0)
    IN [S1 EXCEPT !.micro = Append(@, [Job("readGet", c) EXCEPT
                                          !.key = key,
                                          !.found = hasEntry(S, key)])]

\* _getEntry's reaction: () => this._db[key]
readGetJob(S, j) ==
    IF j.found
    THEN [S EXCEPT !.micro = Append(@, [j EXCEPT !.t = "readItem",
                                                 !.value = S.db[j.key]])]
    ELSE [S EXCEPT !.reads[j.e].st = "rejected"]

\* getEntry's reaction: e => e.item.  It throws when e is undefined (the
\* key was deleted in the meantime) and yields undefined for the Array's
\* length.
readItemJob(S, j) ==
    CASE j.value > 0 -> [S EXCEPT !.reads[j.e].st = "fulfilled",
                                  !.reads[j.e].val = j.value]
      [] j.value = 0 -> [S EXCEPT !.reads[j.e].st = "rejected"]
      [] OTHER -> [S EXCEPT !.reads[j.e].st = "fulfilled"]

\* collection.read(): doc.read() of every item.  A PhonebookEntry held by
\* a collection has had its properties assigned by its constructor, so
\* its accessors only read.
readCollection(S) ==
    readCall(S, "read", "", "returned", Cardinality(DOMAIN read(S)))

\* entry.read() on an entry held by the collection
readEntry(S, e) ==
    readCall(S, "getState", S.ents[e].key, "returned", e)

\* ------------------------------------------- _resetDeferred on a document
\* rdoc.defs are the Q deferreds made for the document, rdoc.proms the
\* native promises it has had as _promise, rdoc.d and rdoc.p the current
\* _d and _promise (0: undefined), rdoc.resets the _resetDeferred calls
\* made after construction with the promise each returned.

\* the elements of a set of ids, in increasing order
RECURSIVE IdSeq(_)
IdSeq(s) ==
    IF s = {} THEN <<>>
    ELSE LET x == CHOOSE y \in s : \A z \in s : y <= z
         IN <<x>> \o IdSeq(s \ {x})

\* cb of _resetDeferred: this._d = d; this._promise = new Promise(...)
\* whose executor resolves it with d.promise (a promise job adopts it).
resetCb(S, d) ==
    LET P == Len(S.rdoc.proms) + 1
    IN [S EXCEPT !.rdoc.d = d, !.rdoc.p = P,
                 !.rdoc.proms = Append(@, [st |-> "pending", of |-> d,
                                           reacts |-> <<>>]),
                 !.micro = Append(@, Job("rThenable", P))]

\* The ReactiveDocument / StorageItem constructor: Q.defer() and
\* _resetDeferred(d) with _promise still undefined, so cb runs at once.
newDocument(S) ==
    resetCb([S EXCEPT !.rdoc.defs = Append(@, [st |-> "pending",
                                               attached |-> {}])], 1)

\* _resetDeferred that installs the new deferred at once
resetDeferred_Now(S) ==
    LET d == Len(S.rdoc.defs) + 1
        r == Len(S.rdoc.resets) + 1
        S1 == [S EXCEPT !.rdoc.defs = Append(@, [st |-> "pending",
                                                 attached |-> {}]),
                        !.rdoc.resets = Append(@, [d |-> d, on |-> S.rdoc.p,
                                                   st |-> "fulfilled"])]
    IN resetCb(S1, d)

\* _resetDeferred(Q.defer()) on a constructed document:
\* this._promise.then(cb)
resetDeferred(S) ==
    LET d == Len(S.rdoc.defs) + 1
        r == Len(S.rdoc.resets) + 1
        P == S.rdoc.p
        S1 == [S EXCEPT !.rdoc.defs = Append(@, [st |-> "pending",
                                                 attached |-> {}]),
                        !.rdoc.resets = Append(@, [d |-> d, on |-> P,
                                                   st |-> "pending"])]
    IN CASE S.rdoc.proms[P].st = "pending" ->
               [S1 EXCEPT !.rdoc.proms[P].reacts = Append(@, r)]
         [] S.rdoc.proms[P].st = "fulfilled" ->
               [S1 EXCEPT !.micro = Append(@, Job("rReset", r))]
         [] OTHER ->
               [S1 EXCEPT !.micro = Append(@, Job("rResetRej", r))]

\* Settling the current Q deferred _d (by _resolved or _emitError): the
\* thens attached to it are dispatched on later Q ticks.
settleDeferred(S, st) ==
    LET d == S.rdoc.d
        ps == IdSeq(S.rdoc.defs[d].attached)
    IN IF S.rdoc.defs[d].st # "pending" THEN S
       ELSE [S EXCEPT !.rdoc.defs[d].st = st,
                      !.rdoc.defs[d].attached = {},
                      !.ticks = @ \o [i \in 1..Len(ps) |->
                                         Job("rQdispatch", ps[i])]]

\* NewPromiseResolveThenableJob for promise P: d.promise.then, which Q
\* defers to its next tick.
rThenableJob(S, P) == [S EXCEPT !.ticks = Append(@, Job("rQthen", P))]

\* Q then on d.promise: attach while pending, dispatch later once settled.
rQthenTick(S, P) ==
    IF S.rdoc.defs[S.rdoc.proms[P].of].st = "pending"
    THEN [S EXCEPT !.rdoc.defs[S.rdoc.proms[P].of].attached = @ \cup {P}]
    ELSE [S EXCEPT !.ticks = Append(@, Job("rQdispatch", P))]

\* Promise P adopts the outcome of its deferred; the reactions of the
\* _resetDeferred calls waiting on it become promise jobs.
rQdispatchTick(S, P) ==
    LET st == S.rdoc.defs[S.rdoc.proms[P].of].st
        rs == S.rdoc.proms[P].reacts
    IN [S EXCEPT !.rdoc.proms[P].st = st,
                 !.rdoc.proms[P].reacts = <<>>,
                 !.micro = @ \o [i \in 1..Len(rs) |->
                     Job(IF st = "fulfilled" THEN "rReset" ELSE "rResetRej",
                         rs[i])]]

\* The fulfilment reaction of _resetDeferred call r: cb runs and the
\* promise the call returned fulfils.
rResetJob(S, r) ==
    [resetCb(S, S.rdoc.resets[r].d) EXCEPT !.rdoc.resets[r].st = "fulfilled"]

\* No rejection handler was given: the promise the call returned rejects.
rResetRejJob(S, r) == [S EXCEPT !.rdoc.resets[r].st = "rejected"]

\* --------------------------------------------------- Q / promise plumbing

\* NewPromiseResolveThenableJob of `resolve(this._d.promise)`:
\* calls _d.promise.then, which Q defers to its next tick.
thenableJob(S, e) == [S EXCEPT !.ticks = Append(@, Job("qthen", e))]

\* Q then on _d.promise: attach while pending, dispatch later once settled.
qthenTick(S, e) ==
    IF isPending(S, e)
    THEN [S EXCEPT !.ents[e].attached = TRUE]
    ELSE [S EXCEPT !.ticks = Append(@, Job("qdispatch", e))]

\* _promise adopts the outcome of _d.promise; its reactions become jobs.
qdispatchTick(S, e) ==
    LET pre == S.ents[e].preact
        ful == S.ents[e].d = "fulfilled"
        ins == SelectSeq(pre, LAMBDA r : r.t = "insert")
        rej == [i \in 1..Len(ins) |-> [ins[i] EXCEPT !.t = "insertRej"]]
    IN [S EXCEPT !.ents[e].p = S.ents[e].d,
                 !.ents[e].preact = <<>>,
                 !.micro = @ \o (IF ful THEN pre ELSE rej),
                 !.pful = IF ful THEN Append(@, e) ELSE @]

RunJob(S, j) ==
    CASE j.t = "addEntry" -> addEntryJob(S, j.e)
      [] j.t = "thenable" -> thenableJob(S, j.e)
      [] j.t = "insert" -> insertJob(S, j.e)
      [] j.t = "insertRej" -> insertRejJob(S, j.e)
      [] j.t = "fwd" -> fwdJob(S, j)
      [] j.t = "getEntry" -> getEntryJob(S, j)
      [] j.t = "emitEntry" -> emitEntryJob(S, j)
      [] j.t = "rslvRead" -> rslvReadJob(S, j)
      [] j.t = "rslvItem" -> rslvItemJob(S, j)
      [] j.t = "rslvDone" -> rslvDoneJob(S, j)
      [] j.t = "readGet" -> readGetJob(S, j)
      [] j.t = "readItem" -> readItemJob(S, j)
      [] j.t = "lgAdd" -> lgAddTick(S, j.e)
      [] j.t = "lgThen" -> lgThenTick(S, j.e)
      [] j.t = "lgCatch" -> lgCatchTick(S, j.e)
      [] j.t = "rThenable" -> rThenableJob(S, j.e)
      [] j.t = "rQthen" -> rQthenTick(S, j.e)
      [] j.t = "rQdispatch" -> rQdispatchTick(S, j.e)
      [] j.t = "rReset" -> rResetJob(S, j.e)
      [] j.t = "rResetRej" -> rResetRejJob(S, j.e)
      [] j.t = "qthen" -> qthenTick(S, j.e)
      [] j.t = "qdispatch" -> qdispatchTick(S, j.e)

\* ----------------------------------------------------------------- steps

Init ==
    /\ db = [k \in DbKeys |-> IF k = LengthKey THEN NotAnEntry ELSE 0]
    /\ ents = <<>>
    /\ calls = <<>>
    /\ micro = <<>>
    /\ ticks = <<>>
    /\ cev = <<>>
    /\ dels = <<>>
    /\ rdy = <<>>
    /\ pful = <<>>
    /\ eev = <<>>
    /\ nreg = 0
    /\ hnd = <<>>
    /\ clst = <<>>
    /\ objs = <<>>
    /\ rslv = <<>>
    /\ its = <<>>
    /\ disp = [st |-> "live", to |-> {}, seen |-> 0]
    /\ emits = <<>>
    /\ rdoc = [defs |-> <<>>, proms |-> <<>>, d |-> 0, p |-> 0,
               resets |-> <<>>]
    /\ reads = <<>>
    /\ legacy = [db |-> 0, calls |-> <<>>, items |-> <<>>, added |-> <<>>,
                 removed |-> <<>>]
    /\ nops = 0

\* _addEntry(key, ...): hasEntry is evaluated synchronously, the rest runs
\* as a reaction of the promise it returned.
Allocate(k, m) ==
    /\ Len(calls) < MaxAlloc
    /\ Apply(addEntry(St, k, m))
    /\ UNCHANGED nops

RunMicro ==
    /\ micro # <<>>
    /\ Apply(RunJob([St EXCEPT !.micro = Tail(@)], Head(micro)))
    /\ UNCHANGED nops

RunTick ==
    /\ ticks # <<>>
    /\ micro = <<>>
    /\ Apply(RunJob([St EXCEPT !.ticks = Tail(@)], Head(ticks)))
    /\ UNCHANGED nops

\* The concrete document calls _resolved() after construction.
Resolved(e) ==
    /\ nops < MaxOps
    /\ ents[e].mode = "wait"
    /\ Apply(resolved(St, e))
    /\ nops' = nops + 1

\* The concrete document calls _emitError(err) (PhonebookEntry.error).
SignalError(e) ==
    /\ nops < MaxOps
    /\ Apply(emitError(St, e, Boom))
    /\ nops' = nops + 1

\* The concrete document calls _emitDelete() (PhonebookEntry.kill).
RequestDelete(e) ==
    /\ nops < MaxOps
    /\ Apply(emitDelete(St, e, "request"))
    /\ nops' = nops + 1

\* The emission started by _emitDelete completes.
DeleteDone(i) ==
    /\ ~dels[i].done
    /\ Apply(deleteDone(St, i))
    /\ UNCHANGED nops

\* entry.age = v
SetField(e, v) ==
    /\ nops < MaxOps
    /\ Apply(setField(St, e, "age", v))
    /\ nops' = nops + 1

\* _emitEntry(key, ev, ...) / _emitEntryError(key, err)
EmitEntry(k, ev) ==
    /\ nops < MaxOps
    /\ Apply([St EXCEPT !.micro = Append(@,
                 [Job("getEntry", 0) EXCEPT !.key = k, !.ev = ev,
                                            !.err = Bang,
                                            !.found = hasEntry(St, k)])])
    /\ nops' = nops + 1

Next ==
    \/ \E a \in AllocArgs : Allocate(a[1], a[2])
    \/ RunMicro
    \/ RunTick
    \/ \E e \in 1..Len(ents) : Resolved(e)
    \/ \E e \in 1..Len(ents) : SignalError(e)
    \/ \E e \in 1..Len(ents) : RequestDelete(e)
    \/ \E i \in 1..Len(dels) : DeleteDone(i)
    \/ \E e \in 1..Len(ents), v \in AgeVals : SetField(e, v)
    \/ \E k \in Keys \ {EmptyKey}, ev \in {"error", "delete"} : EmitEntry(k, ev)

Spec == Init /\ [][Next]_vars

TypeOK ==
    /\ db \in [DbKeys -> NotAnEntry..MaxAlloc]
    /\ Len(ents) <= MaxAlloc
    /\ nops \in 0..MaxOps

\* ------------------------------------------- one document, with listeners

\* the assignments a caller makes: a new age, or the gender already held
FieldArgs == {<<"age", 30>>, <<"gender", Female>>}

\* the handler functions a caller subscribes
H1 == "h1"
H2 == "h2"
Handlers == {H1, H2}

\* the emitter scope of the collection's own _ee (the entries' are 1, 2, ..)
Coll == 0

\* _registerEvent of ReactiveDocument (e an entry) and of ReactiveCollection
\* (e = Coll): this._ee.on(eventName, handler), and the closure returned,
\* which remembers eventName and handler.
registerEvent(S, e, ev, fn) ==
    LET l == [ev |-> ev, h |-> "user", id |-> S.nreg + 1, fn |-> fn]
        S1 == [S EXCEPT !.nreg = @ + 1,
                        !.hnd = Append(@, [e |-> e, ev |-> ev, fn |-> fn,
                                           off |-> FALSE, at |-> 0])]
    IN IF e = Coll THEN [S1 EXCEPT !.clst = Append(@, l)]
       ELSE [S1 EXCEPT !.ents[e].lst = Append(@, l)]

\* the positions in lst of the listeners added by on(ev, fn)
Matching(lst, ev, fn) ==
    {i \in 1..Len(lst) :
        lst[i].h = "user" /\ lst[i].ev = ev /\ lst[i].fn = fn}

\* removeListener that takes nothing off the emitter
removeListener_Keeps(lst, ev, fn) == lst

\* this._ee.removeListener(eventName, handler): EventEmitter takes off the
\* most recently added instance of the function, if there is one.
removeListener(lst, ev, fn) ==
    IF Matching(lst, ev, fn) = {} THEN lst
    ELSE LET m == CHOOSE i \in Matching(lst, ev, fn) :
                      \A k \in Matching(lst, ev, fn) : k <= i
         IN SubSeq(lst, 1, m - 1) \o SubSeq(lst, m + 1, Len(lst))

\* The closure returned by registration r, called.  Its record remembers
\* that it has been called (off) and how many handler invocations had been
\* made when it was first called (at).
unsubscribe(S, r) ==
    LET u == S.hnd[r]
        S1 == [S EXCEPT !.hnd[r].off = TRUE,
                        !.hnd[r].at = IF u.off THEN @ ELSE Len(S.eev)]
    IN IF u.e = Coll
       THEN [S1 EXCEPT !.clst = removeListener(@, u.ev, u.fn)]
       ELSE [S1 EXCEPT !.ents[u.e].lst = removeListener(@, u.ev, u.fn)]

\* The first _addEntry call on the collection.
AllocateFirst(m) ==
    /\ calls = <<>>
    /\ Allocate("a", m)

\* entry.onUpdate(h) / entry.onError(h) / entry.onDelete(h)
Subscribe(e, ev) ==
    /\ nreg < MaxSubs
    /\ Apply(registerEvent(St, e, ev, H1))
    /\ UNCHANGED nops

DocResolved(e) ==
    /\ nops < MaxDocOps
    /\ ents[e].mode = "wait"
    /\ Apply(resolved(St, e))
    /\ nops' = nops + 1

DocSignalError(e) ==
    /\ nops < MaxDocOps
    /\ Apply(emitError(St, e, Boom))
    /\ nops' = nops + 1

DocRequestDelete(e) ==
    /\ nops < MaxDocOps
    /\ Apply(emitDelete(St, e, "request"))
    /\ nops' = nops + 1

DocSetField(e, f, v) ==
    /\ nops < MaxDocOps
    /\ Apply(setField(St, e, f, v))
    /\ nops' = nops + 1

\* _emitEntry("a", ev, ...) / _emitEntryError("a", err)
DocEmitEntry(ev) ==
    /\ nops < MaxDocOps
    /\ Apply([St EXCEPT !.micro = Append(@,
                 [Job("getEntry", 0) EXCEPT !.key = "a", !.ev = ev,
                                            !.err = Bang,
                                            !.found = hasEntry(St, "a")])])
    /\ nops' = nops + 1

DocNext ==
    \/ \E m \in Modes : AllocateFirst(m)
    \/ RunMicro
    \/ RunTick
    \/ \E i \in 1..Len(dels) : DeleteDone(i)
    \/ \E e \in 1..Len(ents), ev \in {"update", "error", "delete"} :
          Subscribe(e, ev)
    \/ \E e \in 1..Len(ents) : DocResolved(e)
    \/ \E e \in 1..Len(ents) : DocSignalError(e)
    \/ \E e \in 1..Len(ents) : DocRequestDelete(e)
    \/ \E e \in 1..Len(ents), a \in FieldArgs : DocSetField(e, a[1], a[2])
    \/ \E ev \in {"error", "delete"} : DocEmitEntry(ev)

\* The life of the first document of a collection.
DocSpec == Init /\ [][DocNext]_vars

\* --------------------------------- subscribing and unsubscribing handlers

MaxRegs == 2       \* registrations made in SubSpec
MaxSubOps == 2     \* caller operations of SubSpec (unsubscribing included)

\* entry.onUpdate(fn) / entry.onError(fn) / collection.onUpdate(fn) /
\* collection.onError(fn)
SubRegister(e, ev, fn) ==
    /\ nreg < MaxRegs
    /\ Apply(registerEvent(St, e, ev, fn))
    /\ UNCHANGED nops

\* The caller invokes the function a registration returned.
Unsubscribe(r) ==
    /\ nops < MaxSubOps
    /\ Apply(unsubscribe(St, r))
    /\ nops' = nops + 1

\* entry.age = v
SubSetField(e, v) ==
    /\ nops < MaxSubOps
    /\ Apply(setField(St, e, "age", v))
    /\ nops' = nops + 1

SubSignalError(e) ==
    /\ nops < MaxSubOps
    /\ Apply(emitError(St, e, Boom))
    /\ nops' = nops + 1

SubNext ==
    \/ AllocateFirst("ready")
    \/ RunMicro
    \/ RunTick
    \/ \E e \in {Coll} \cup (1..Len(ents)), ev \in {"update", "error"},
          fn \in Handlers : SubRegister(e, ev, fn)
    \/ \E r \in 1..Len(hnd) : Unsubscribe(r)
    \/ \E e \in 1..Len(ents), v \in AgeVals : SubSetField(e, v)
    \/ \E e \in 1..Len(ents) : SubSignalError(e)

\* A ready document and its collection, with subscribers coming and going.
SubSpec == Init /\ [][SubNext]_vars

\* ------------------------------------------- two documents, side by side

MaxIsoRegs == 2    \* handlers subscribed in IsoSpec
MaxIsoOps == 2     \* field assignments made in IsoSpec

\* The _addEntry call for a key not asked for before.
AllocateNew(k) ==
    /\ \A c \in 1..Len(calls) : calls[c].key # k
    /\ Allocate(k, "ready")

\* entry.onUpdate(fn)
IsoRegister(e, fn) ==
    /\ nreg < MaxIsoRegs
    /\ Apply(registerEvent(St, e, "update", fn))
    /\ UNCHANGED nops

\* entry.age = v
IsoSetField(e, v) ==
    /\ nops < MaxIsoOps
    /\ Apply(setField(St, e, "age", v))
    /\ nops' = nops + 1

IsoNext ==
    \/ \E k \in {"a", "b"} : AllocateNew(k)
    \/ RunMicro
    \/ RunTick
    \/ \E e \in 1..Len(ents) : IsoRegister(e, H1)
    \/ \E e \in 1..Len(ents), v \in AgeVals \cup {Undef} : IsoSetField(e, v)

\* Documents of one class in one collection, each with its subscribers.
IsoSpec == Init /\ [][IsoNext]_vars

\* ------------------------------------------- events sent to the entries

MaxEmits == 2      \* _emitEntry calls made in EmitSpec

\* _emitEntry(k, ev, ...) / _emitEntryError(k, err)
TrackedEmit(k, ev) ==
    /\ Len(emits) < MaxEmits
    /\ Apply(emitEntry(St, k, ev))
    /\ UNCHANGED nops

EmitNext ==
    \/ \E k \in {"a", "b"} : AllocateNew(k)
    \/ RunMicro
    \/ RunTick
    \/ \E i \in 1..Len(dels) : DeleteDone(i)
    \/ \E k \in {"a", "b", LengthKey}, ev \in {"error", "delete"} :
          TrackedEmit(k, ev)

\* A collection that sends events to its entries.
EmitSpec == Init /\ [][EmitNext]_vars

\* ------------------------------------ a document replacing its deferred

MaxResets == 2     \* _resetDeferred calls made in ResetSpec
MaxResetOps == 2   \* _resolved / _emitError calls made in ResetSpec

\* new PhonebookEntry-like document whose constructor leaves it Pending
NewDocument ==
    /\ rdoc.p = 0
    /\ Apply(newDocument(St))
    /\ UNCHANGED nops

\* this._resetDeferred(Q.defer())
ResetDeferred ==
    /\ rdoc.p # 0
    /\ Len(rdoc.resets) < MaxResets
    /\ Apply(resetDeferred(St))
    /\ UNCHANGED nops

\* this._resolved()
ResetResolved ==
    /\ rdoc.p # 0
    /\ nops < MaxResetOps
    /\ Apply(settleDeferred(St, "fulfilled"))
    /\ nops' = nops + 1

\* this._emitError(err) while Pending: this._d.reject(err)
ResetError ==
    /\ rdoc.p # 0
    /\ nops < MaxResetOps
    /\ Apply(settleDeferred(St, "rejected"))
    /\ nops' = nops + 1

ResetNext ==
    \/ NewDocument
    \/ ResetDeferred
    \/ ResetResolved
    \/ ResetError
    \/ RunMicro
    \/ RunTick

\* The readiness of one document across _resetDeferred calls.
ResetSpec == Init /\ [][ResetNext]_vars

\* ------------------------------------- one key allocated again and again

MaxLifeAllocs == 2   \* _addEntry calls made in LifeSpec
MaxLifeOps == 2      \* calls made on the entries in LifeSpec

\* _addEntry("a", ...) once every earlier call has settled
LifeAllocate(m) ==
    /\ Len(calls) < MaxLifeAllocs
    /\ \A c \in 1..Len(calls) : calls[c].st # "pending"
    /\ Apply(addEntry(St, "a", m))
    /\ UNCHANGED nops

LifeResolved(e) ==
    /\ nops < MaxLifeOps
    /\ ents[e].mode = "wait"
    /\ Apply(resolved(St, e))
    /\ nops' = nops + 1

LifeSignalError(e) ==
    /\ nops < MaxLifeOps
    /\ Apply(emitError(St, e, Boom))
    /\ nops' = nops + 1

LifeRequestDelete(e) ==
    /\ nops < MaxLifeOps
    /\ Apply(emitDelete(St, e, "request"))
    /\ nops' = nops + 1

LifeSetField(e, v) ==
    /\ nops < MaxLifeOps
    /\ Apply(setField(St, e, "age", v))
    /\ nops' = nops + 1

LifeNext ==
    \/ \E m \in {"ready", "wait"} : LifeAllocate(m)
    \/ RunMicro
    \/ RunTick
    \/ \E e \in 1..Len(ents) : LifeResolved(e)
    \/ \E e \in 1..Len(ents) : LifeSignalError(e)
    \/ \E e \in 1..Len(ents) : LifeRequestDelete(e)
    \/ \E i \in 1..Len(dels) : DeleteDone(i)
    \/ \E e \in 1..Len(ents), v \in AgeVals : LifeSetField(e, v)

\* The successive entries of one key, from allocation to removal.
LifeSpec == Init /\ [][LifeNext]_vars

\* ------------------------------------- the events of one entry, in order

MaxOrdOps == 2       \* calls made on the entry in OrdSpec
OrdVals == {30, 31}  \* the ages assigned in OrdSpec

\* entry.onUpdate(H1) / entry.onError(H1), once each
OrdSubscribe(e, ev) ==
    /\ UserIds(St, e, ev) = {}
    /\ Apply(registerEvent(St, e, ev, H1))
    /\ UNCHANGED nops

\* the entry has a subscriber for each of its two events
OrdObserved(e) ==
    UserIds(St, e, "update") # {} /\ UserIds(St, e, "error") # {}

OrdResolved(e) ==
    /\ nops < MaxOrdOps
    /\ ents[e].mode = "wait"
    /\ Apply(resolved(St, e))
    /\ nops' = nops + 1

\* entry.age = v on an entry that is being observed
OrdSetField(e, v) ==
    /\ nops < MaxOrdOps
    /\ OrdObserved(e)
    /\ Apply(setField(St, e, "age", v))
    /\ nops' = nops + 1

\* entry.error(err) on an entry that is being observed
OrdSignalError(e) ==
    /\ nops < MaxOrdOps
    /\ OrdObserved(e)
    /\ Apply(emitError(St, e, Boom))
    /\ nops' = nops + 1

OrdNext ==
    \/ \E m \in {"ready", "wait"} : AllocateFirst(m)
    \/ RunMicro
    \/ RunTick
    \/ \E e \in 1..Len(ents), ev \in {"update", "error"} : OrdSubscribe(e, ev)
    \/ \E e \in 1..Len(ents) : OrdResolved(e)
    \/ \E e \in 1..Len(ents), v \in OrdVals : OrdSetField(e, v)
    \/ \E e \in 1..Len(ents) : OrdSignalError(e)

\* One entry emitting updates and errors that its collection forwards.
OrdSpec == Init /\ [][OrdNext]_vars

\* ------------------------------------------------ disposing a collection

MaxDispRegs == 2   \* handlers subscribed in DispSpec
MaxDispOps == 2    \* dispose() calls and field assignments made in DispSpec

ErrDisposed == "disposed"           \* an allocation refused after disposal

\* the handlers subscribed on the collection for ev
CollIds(S, ev) ==
    {S.clst[i].id : i \in {n \in 1..Len(S.clst) : S.clst[n].ev = ev}}

\* dispose(): 'dispose' is announced on the collection's _ee.  The record
\* remembers the subscribers of that moment.
dispose(S) ==
    LET ls == SelectSeq(S.clst, LAMBDA l : l.ev = "dispose")
    IN [S EXCEPT !.eev = @ \o [i \in 1..Len(ls) |->
                     [e |-> Coll, lid |-> ls[i].id, ev |-> "dispose",
                      key |-> "", field |-> "", value |-> 0, err |-> ""]],
                 !.disp = IF S.disp.st = "disposed" THEN @
                          ELSE [st |-> "disposing",
                                to |-> CollIds(S, "dispose"), seen |-> 0]]

\* The announcement has completed: the collection is terminated, its
\* listeners are released and the promise dispose() returned fulfils.
disposeDone(S) ==
    [S EXCEPT !.clst = <<>>,
              !.disp = [@ EXCEPT !.st = "disposed", !.seen = Len(S.eev)]]

\* on...(handler) on the collection: nothing is registered once it is
\* disposed.
disposableRegister(S, ev, fn) ==
    IF S.disp.st = "disposed" THEN S ELSE registerEvent(S, Coll, ev, fn)

\* _addEntry on the collection: refused once it is disposed.
disposableAddEntry(S, k, m) ==
    IF S.disp.st = "disposed"
    THEN [S EXCEPT !.calls = Append(@,
             [key |-> k, mode |-> m, found |-> hasEntry(S, k),
              st |-> "rejected", val |-> 0, err |-> ErrDisposed,
              rivals |-> {}])]
    ELSE addEntry(S, k, m)

\* The _addEntry call for a key not asked for before.
DispAllocate(k, m) ==
    /\ \A c \in 1..Len(calls) : calls[c].key # k
    /\ Apply(disposableAddEntry(St, k, m))
    /\ UNCHANGED nops

\* collection.onInsert(fn) / onUpdate(fn) / onDispose(fn)
DispRegister(ev, fn) ==
    /\ nreg < MaxDispRegs
    /\ Apply(disposableRegister(St, ev, fn))
    /\ UNCHANGED nops

Dispose ==
    /\ nops < MaxDispOps
    /\ Apply(dispose(St))
    /\ nops' = nops + 1

DisposeDone ==
    /\ disp.st = "disposing"
    /\ Apply(disposeDone(St))
    /\ UNCHANGED nops

\* entry.age = v
DispSetField(e, v) ==
    /\ nops < MaxDispOps
    /\ Apply(setField(St, e, "age", v))
    /\ nops' = nops + 1

DispNext ==
    \/ \E k \in {"a", "b"} : DispAllocate(k, "ready")
    \/ RunMicro
    \/ RunTick
    \/ \E ev \in {"insert", "update", "dispose"} : DispRegister(ev, H1)
    \/ Dispose
    \/ DisposeDone
    \/ \E e \in 1..Len(ents), v \in AgeVals : DispSetField(e, v)

\* A collection with subscribers that is disposed of while in use.
DispSpec == Init /\ [][DispNext]_vars

\* ------------------------------------------------- iterating the entries

MaxIters == 1      \* items() calls made in IterSpec
MaxIterOps == 1    \* entries deleted in IterSpec

\* it = collection.items()
ItemsCall ==
    /\ Len(its) < MaxIters
    /\ Apply(itemsCall(St))
    /\ UNCHANGED nops

\* it.next()
ItemsNext(i) ==
    /\ ~its[i].done
    /\ Apply(itemsNext(St, i))
    /\ UNCHANGED nops

\* entry.kill()
IterKill(e) ==
    /\ nops < MaxIterOps
    /\ Apply(emitDelete(St, e, "request"))
    /\ nops' = nops + 1

IterNext ==
    \/ \E k \in {"a", "b"} : AllocateNew(k)
    \/ RunMicro
    \/ RunTick
    \/ \E i \in 1..Len(dels) : DeleteDone(i)
    \/ ItemsCall
    \/ \E i \in 1..Len(its) : ItemsNext(i)
    \/ \E e \in 1..Len(ents) : IterKill(e)

\* A collection iterated while entries come and go.
IterSpec == Init /\ [][IterNext]_vars

\* --------------------------------------------------- get-or-allocate

MaxResolve == 2    \* _resolveEntry calls made in ResolveSpec

\* _resolveEntry(k, ...)
ResolveEntry(k, m) ==
    /\ Len(rslv) < MaxResolve
    /\ Apply(resolveEntry(St, k, m))
    /\ UNCHANGED nops

ResolveResolved(e) ==
    /\ nops < MaxOps
    /\ ents[e].mode = "wait"
    /\ Apply(resolved(St, e))
    /\ nops' = nops + 1

ResolveNext ==
    \/ \E k \in {"a", "b"}, m \in Modes : ResolveEntry(k, m)
    \/ RunMicro
    \/ RunTick
    \/ \E e \in 1..Len(ents) : ResolveResolved(e)

\* A collection whose entries are obtained through _resolveEntry.
ResolveSpec == Init /\ [][ResolveNext]_vars

\* ------------------------------------ documents of several classes, alone

MaxObjs == 1       \* documents constructed in ObjSpec
MaxObjOps == 3     \* field assignments made in ObjSpec

\* The document classes: one without reactive properties, PhonebookEntry,
\* and a class derived from PhonebookEntry that declares a reactive
\* property of its own.
NoProps == "ReactiveDocumentWithoutProperties"
Phone == "PhonebookEntry"
Derived == "DerivedEntry"
Base == "ReactiveDocument"
Classes == {NoProps, Phone, Derived}

\* a class with a reactive property that its constructor does not assign
Plain == "ReactiveDocumentOnUpdateTest"

\* `class C extends P`
Parent(c) == IF c = Derived THEN Phone ELSE Base

\* the properties a class decorates with @ReactiveProperty()
Declared(c) ==
    CASE c = Phone -> {"name", "age", "gender"}
      [] c = Plain -> {"name"}
      [] c = Derived -> {"level"}
      [] OTHER -> {}

FieldNames == {"name", "age", "gender", "level"}
FieldVals == {1, 2}

\* The metadata ReactiveProperty leaves on the prototype of class c: the
\* decorated properties, under the key named after target.constructor.name
\* (NoMeta: no such key on that prototype).
NoMeta == {"-"}
OwnMetadata(name, c) ==
    IF name = c /\ Declared(c) # {} THEN Declared(c) ELSE NoMeta

\* Reflect.getMetadata(`rd:reactiveKeys:${name}`, prototype of c): the
\* prototype chain is searched for the key.
RECURSIVE getMetadata(_, _)
getMetadata(name, c) ==
    IF c = Base THEN NoMeta
    ELSE IF OwnMetadata(name, c) # NoMeta THEN OwnMetadata(name, c)
    ELSE getMetadata(name, Parent(c))

\* ReactiveDocument.getState on a document of any class: the key, and
\* this[f] for every f of the reactive keys found under the name of the
\* document's own class.
getStateOf(o) ==
    LET reactiveKeys == getMetadata(o.cls, o.cls)
    IN [key |-> o.key,
        fields |-> IF reactiveKeys = NoMeta THEN << >>
                   ELSE [f \in reactiveKeys |-> o.vals[f]]]

\* the reactive properties a document of class c has: those its class and
\* the classes it extends decorate (the accessors are inherited)
RECURSIVE ReactiveFields(_)
ReactiveFields(c) ==
    IF c = Base THEN {} ELSE Declared(c) \cup ReactiveFields(Parent(c))

\* new C(pee, key, ...): the PhonebookEntry constructor assigns name and
\* gender.
newObject(S, c, key) ==
    LET v0 == [f \in FieldNames |-> Undef]
        v1 == IF c = NoProps THEN v0
              ELSE [v0 EXCEPT !["name"] = 1, !["gender"] = Female]
    IN [S EXCEPT !.objs = Append(@, [cls |-> c, key |-> key, vals |-> v1,
                                     store |-> c \notin {NoProps, Plain}])]

\* document.f = v through the accessor ReactiveProperty installed
assignField(S, o, f, v) ==
    [S EXCEPT !.objs[o].vals[f] = v, !.objs[o].store = TRUE]

\* The default getter without its test: a new store on every read.
defaultGet_NewStore(S, o, f) ==
    [S EXCEPT !.objs[o].store = TRUE,
              !.objs[o].vals = [g \in FieldNames |-> Undef]]

\* The default getter of ReactiveProperty, this[f] read on document o:
\* a document that has no store of values yet (store: this[RP_KEY]) is
\* given an empty one, and the read yields undefined.
defaultGet(S, o, f) ==
    IF ~S.objs[o].store THEN [S EXCEPT !.objs[o].store = TRUE] ELSE S

RECURSIVE readFields(_, _, _)
readFields(S, o, fs) ==
    IF fs = {} THEN S
    ELSE LET f == CHOOSE x \in fs : TRUE
         IN readFields(defaultGet(S, o, f), o, fs \ {f})

\* document.getState() as a call: every reactive key is read through its
\* accessor.
getStateCall(S, o) ==
    LET reactiveKeys == getMetadata(S.objs[o].cls, S.objs[o].cls)
        S1 == IF reactiveKeys = NoMeta THEN S
              ELSE readFields(S, o, reactiveKeys)
    IN readCall(S1, "getState", S.objs[o].key, "returned",
                IF reactiveKeys = NoMeta THEN 0
                ELSE Cardinality(reactiveKeys))

NewObject(c, key) ==
    /\ Len(objs) < MaxObjs
    /\ Apply(newObject(St, c, key))
    /\ UNCHANGED nops

AssignField(o, f, v) ==
    /\ nops < MaxObjOps
    /\ f \in ReactiveFields(objs[o].cls)
    /\ Apply(assignField(St, o, f, v))
    /\ nops' = nops + 1

ObjNext ==
    \/ \E c \in Classes, k \in {"a", "b"} : NewObject(c, k)
    \/ \E o \in 1..Len(objs), f \in FieldNames, v \in FieldVals :
          AssignField(o, f, v)

ObjSpec == Init /\ [][ObjNext]_vars

\* ------------------------------------------------- reading without effect

MaxReads == 3      \* read-only calls made in ReadSpec

\* new PhonebookEntry(...) / new ReactiveDocumentOnUpdateTest(...)
ReadNewObject(c) ==
    /\ objs = <<>>
    /\ Apply(newObject(St, c, "a"))
    /\ UNCHANGED nops

\* collection.hasEntry(k)
ReadHasEntry(k) ==
    /\ Len(reads) + Len(its) < MaxReads
    /\ Apply(hasEntryCall(St, k))
    /\ UNCHANGED nops

\* collection.getEntry(k)
ReadGetEntry(k) ==
    /\ Len(reads) + Len(its) < MaxReads
    /\ Apply(getEntryCall(St, k))
    /\ UNCHANGED nops

\* collection.read()
ReadCollection ==
    /\ Len(reads) + Len(its) < MaxReads
    /\ Apply(readCollection(St))
    /\ UNCHANGED nops

\* entry.read() on an entry of the collection
ReadEntry(e) ==
    /\ Len(reads) + Len(its) < MaxReads
    /\ Apply(readEntry(St, e))
    /\ UNCHANGED nops

\* document.getState() on the document constructed on its own
ReadState(o) ==
    /\ Len(reads) + Len(its) < MaxReads
    /\ Apply(getStateCall(St, o))
    /\ UNCHANGED nops

\* it = collection.items(), counted among the read-only calls
ReadItems ==
    /\ Len(reads) + Len(its) < MaxReads
    /\ ItemsCall

\* a reaction of a getEntry call is the next promise job
ReadJob ==
    /\ micro # <<>>
    /\ Head(micro).t \in {"readGet", "readItem"}
    /\ RunMicro

\* the collection's first _addEntry call, made once the document
\* constructed on its own exists
ReadAllocate ==
    /\ objs # <<>>
    /\ AllocateFirst("ready")

ReadNext ==
    \/ ReadAllocate
    \/ RunMicro
    \/ RunTick
    \/ \E c \in {Phone, Plain} : ReadNewObject(c)
    \/ \E k \in {"a", LengthKey} : ReadHasEntry(k)
    \/ \E k \in {"a", LengthKey} : ReadGetEntry(k)
    \/ ReadCollection
    \/ \E e \in 1..Len(ents) : ReadEntry(e)
    \/ \E o \in 1..Len(objs) : ReadState(o)
    \/ ReadItems
    \/ \E i \in 1..Len(its) : ItemsNext(i)

\* A collection and a document being read.
ReadSpec == Init /\ [][ReadNext]_vars

\* -------------------------------------------------- the legacy service

MaxLegacyAdds == 2   \* _addEntry calls made in LegacySpec
MaxLegacyOps == 3    \* calls made on the items in LegacySpec

\* service._addEntry(key, ...)
LegacyAdd ==
    /\ Len(legacy.calls) < MaxLegacyAdds
    /\ Apply(lgAddEntry(St))
    /\ UNCHANGED nops

\* the item calls _resolved()
LegacyResolved(i) ==
    /\ nops < MaxLegacyOps
    /\ Apply(lgResolved(St, i))
    /\ nops' = nops + 1

\* the item calls _emitError(code, err)
LegacyError(i) ==
    /\ nops < MaxLegacyOps
    /\ Apply(lgEmitError(St, i))
    /\ nops' = nops + 1

\* the item calls _emitClose()
LegacyClose(i) ==
    /\ nops < MaxLegacyOps
    /\ Apply(lgEmitClose(St, i))
    /\ nops' = nops + 1

LegacyNext ==
    \/ LegacyAdd
    \/ RunTick
    \/ \E i \in 1..Len(legacy.items) : LegacyResolved(i)
    \/ \E i \in 1..Len(legacy.items) : LegacyError(i)
    \/ \E i \in 1..Len(legacy.items) : LegacyClose(i)

\* The StorageService with the items added to it.
LegacySpec == Init /\ [][LegacyNext]_vars

\* ================================================================ claims

CallIds == 1..Len(calls)
EntIds == 1..Len(ents)

\* a job of type t for entry (or call) e is queued in q
HasJob(q, t, e) == \E i \in 1..Len(q) : q[i].t = t /\ q[i].e = e

\* the positions of the collection-level announcements of ev for entry e
Events(ev, e) == {i \in 1..Len(cev) : cev[i].ev = ev /\ cev[i].id = e}

Pos(seq, x) == CHOOSE i \in 1..Len(seq) : seq[i] = x

\* the promise returned by call c settles in this step
Settles(c) == calls[c].st = "pending" /\ calls'[c].st # "pending"

\* the fields a PhonebookEntry holds when its constructor returns
CtorFields == [gender |-> Female, age |-> Undef]

\* ---------------------------------------------------------------- C1
\* C1: of two _addEntry calls for the same absent key issued concurrently
\* (the second while the first is still unsettled), exactly one fulfils and
\* the other is rejected with the 'already exists' error, and only one
\* entry is constructed for the key.
C1_Claim ==
    \A c2 \in CallIds : \A c1 \in calls[c2].rivals :
        ( /\ calls[c2].key # EmptyKey
          /\ ~calls[c1].found /\ ~calls[c2].found
          /\ calls[c1].st # "pending" /\ calls[c2].st # "pending" )
        => /\ {calls[c1].st, calls[c2].st} = {"fulfilled", "rejected"}
           /\ \A c \in {c1, c2} :
                 calls[c].st = "rejected" => calls[c].err = ErrExists
           /\ Cardinality({e \in EntIds : ents[e].key = calls[c2].key}) = 1

\* ---------------------------------------------------------------- C2
\* C2: an _addEntry call issued while its key is in the map is rejected
\* with the 'already exists' error, and neither issuing it nor rejecting it
\* constructs an entry, announces anything, queues anything or changes the
\* map or any entry (state, fields, listeners).
C2_Step ==
    /\ \A c \in CallIds :
          (calls[c].found /\ Settles(c)) =>
             /\ calls'[c].st = "rejected"
             /\ calls'[c].err = ErrExists
             /\ db' = db /\ ents' = ents /\ cev' = cev
             /\ ticks' = ticks /\ micro' = Tail(micro)
    /\ (Len(calls') > Len(calls) /\ calls'[Len(calls')].found) =>
          (db' = db /\ ents' = ents /\ cev' = cev)

C2_DuplicateRejected == [][C2_Step]_vars

\* a duplicate call has been rejected while the first entry is still Pending
C2_Witness ==
    \E c \in CallIds :
        /\ calls[c].found
        /\ calls[c].st = "rejected"
        /\ calls[c].err = ErrExists
        /\ db[calls[c].key] # 0
        /\ ents[db[calls[c].key]].d = "pending"

\* ---------------------------------------------------------------- C3
\* C3: at the moment the promise returned by _addEntry fulfils with an
\* entry, that entry is Ready (isPending is false, its deferred fulfilled).
C3_Step ==
    \A c \in CallIds :
        (Settles(c) /\ calls'[c].st = "fulfilled") =>
            ents'[calls'[c].val].d = "fulfilled"

C3_Claim == [][C3_Step]_vars

\* ---------------------------------------------------------------- C4
\* C4: the promise returned by _addEntry never stands fulfilled with an
\* entry whose initialization failed (whose deferred was rejected).
C4_Claim ==
    \A c \in CallIds :
        calls[c].st = "fulfilled" => ents[calls[c].val].d # "rejected"

\* ---------------------------------------------------------------- C5
\* C5: for an entry whose initialization failed, the collection never
\* announces 'insert' or 'delete', and in the step in which the failure
\* settles (the rejection reaction of its promise runs) the key leaves the
\* map.
C5_Inv ==
    \A e \in EntIds :
        ents[e].d = "rejected" =>
            Events("insert", e) = {} /\ Events("delete", e) = {}

C5_Step ==
    \A e \in EntIds :
        (HasJob(micro, "insertRej", e) /\ ~HasJob(micro', "insertRej", e))
            => db'[ents[e].key] = 0

C5_NoInsertOnFailure == []C5_Inv /\ [][C5_Step]_vars

\* the failure of a stored entry has settled and its key is gone
C5_Witness ==
    \E e \in EntIds :
        /\ ents[e].d = "rejected"
        /\ ents[e].p = "rejected"
        /\ ~HasJob(micro, "insertRej", e)
        /\ \E c \in CallIds : calls[c].st = "fulfilled" /\ calls[c].val = e
        /\ db[ents[e].key] = 0

\* ---------------------------------------------------------------- C6
\* C6: when the factory throws (empty key), the call is rejected with the
\* constructor's error, the key is never in the map, no entry exists for
\* it and the collection announces nothing carrying it.
C6_CtorThrowNeverStored ==
    /\ db[EmptyKey] = 0
    /\ \A e \in EntIds : ents[e].key # EmptyKey
    /\ \A i \in 1..Len(cev) : cev[i].key # EmptyKey
    /\ \A c \in CallIds :
          (calls[c].key = EmptyKey /\ calls[c].st # "pending") =>
             (calls[c].st = "rejected" /\ calls[c].err = ErrCtor)

\* an allocation with the empty key has been rejected by the constructor
C6_Witness ==
    \E c \in CallIds :
        /\ calls[c].key = EmptyKey
        /\ calls[c].st = "rejected"
        /\ calls[c].err = ErrCtor

\* ---------------------------------------------------------------- C7
\* C7 (as claimed): 'insert' is announced at most once per entry, its
\* snapshot holds the field values the entry had when it became Ready, and
\* the announcements follow the order in which the entries became Ready.
C7_Claim ==
    /\ \A e \in EntIds : Cardinality(Events("insert", e)) <= 1
    /\ \A i \in 1..Len(cev) :
          cev[i].ev = "insert" => cev[i].snap = ents[cev[i].id].atReady
    /\ \A i, j \in 1..Len(cev) :
          (i < j /\ cev[i].ev = "insert" /\ cev[j].ev = "insert") =>
             Pos(rdy, cev[i].id) < Pos(rdy, cev[j].id)

\* C7 (amended): once an entry's ready promise has fulfilled, its 'insert'
\* reaction is queued or 'insert' has been announced, exactly once; the
\* snapshot holds the field values of the entry at the moment of the
\* announcement, among them the gender set during construction; the
\* announcements follow the order in which the ready promises fulfilled.
C7_Inv ==
    /\ \A e \in EntIds :
          /\ Cardinality(Events("insert", e)) <= 1
          /\ Events("insert", e) # {} => ents[e].p = "fulfilled"
          /\ ents[e].p = "fulfilled" =>
                (Events("insert", e) # {}) # HasJob(micro, "insert", e)
    /\ \A i \in 1..Len(cev) :
          cev[i].ev = "insert" => cev[i].snap.gender = Female
    /\ \A i, j \in 1..Len(cev) :
          (i < j /\ cev[i].ev = "insert" /\ cev[j].ev = "insert") =>
             Pos(pful, cev[i].id) < Pos(pful, cev[j].id)

C7_Step ==
    \A i \in (Len(cev) + 1)..Len(cev') :
        cev'[i].ev = "insert" => cev'[i].snap = ents'[cev'[i].id].fields

C7_InsertOnce == []C7_Inv /\ [][C7_Step]_vars

\* 'insert' has been announced for two entries
C7_Witness ==
    \E i, j \in 1..Len(cev) :
        /\ i < j
        /\ cev[i].ev = "insert" /\ cev[j].ev = "insert"
        /\ cev[i].snap.gender = Female

\* ---------------------------------------------------------------- C8
\* C8: when the promise returned by _addEntry fulfils with an entry, the
\* collection has already announced 'insert' for that entry.
C8_Step ==
    \A c \in CallIds :
        (Settles(c) /\ calls'[c].st = "fulfilled") =>
            \E i \in 1..Len(cev') :
                cev'[i].ev = "insert" /\ cev'[i].id = calls'[c].val

C8_Claim == [][C8_Step]_vars

\* ---------------------------------------------------------------- C9
\* C9: once a deletion requested on an entry (_emitDelete, or "delete" on
\* its parent channel) has completed, the map no longer holds that entry
\* under its key.
C9_Claim ==
    \A i \in 1..Len(dels) :
        (dels[i].done /\ dels[i].src \in {"request", "parent"}) =>
            db[ents[dels[i].e].key] # dels[i].e

\* --------------------------------------------------------------- C10
\* C10: whenever the collection announces 'delete' for a key, the key is
\* already out of the map, so hasEntry(key) evaluated in a 'delete' handler
\* fails.
C10_DeleteAfterRemoval ==
    \A i \in 1..Len(cev) : cev[i].ev = "delete" => ~cev[i].present

\* 'delete' has been announced for an entry that had been inserted
C10_Witness ==
    \E i, j \in 1..Len(cev) :
        /\ i < j
        /\ cev[i].ev = "insert" /\ cev[j].ev = "delete"
        /\ cev[i].id = cev[j].id
        /\ ~cev[j].present
\* --------------------------------------------------------------- C11
\* C11: the collection announces 'update' or 'error' for an entry only
\* after it has announced 'insert' for that entry, and it never announces
\* 'update' or 'error' for an entry whose initialization failed, whatever
\* was assigned to its fields while it was Pending.
C11_ForwardAfterInsert ==
    /\ \A i \in 1..Len(cev) :
          cev[i].ev \in {"update", "error"} =>
             \E j \in 1..(i - 1) :
                 cev[j].ev = "insert" /\ cev[j].id = cev[i].id
    /\ \A e \in EntIds :
          ents[e].d = "rejected" =>
             Events("update", e) = {} /\ Events("error", e) = {}

\* the failure of an entry whose age was assigned while it was Pending has
\* settled, and no 'update' was announced for it
C11_Witness ==
    \E e \in EntIds :
        /\ ents[e].d = "rejected"
        /\ ents[e].p = "rejected"
        /\ ents[e].atReady.age = 30
        /\ ents[e].preact = <<>>
        /\ ~HasJob(micro, "insertRej", e)
        /\ Events("update", e) = {}
\* ------------------------------------------------------ helpers, C12..C20

\* the subscribed handlers of entry e for ev, in registration order
UserLst(e, ev) ==
    SelectSeq(ents[e].lst, LAMBDA l : l.h = "user" /\ l.ev = ev)

\* one invocation of each of them with the payload (field, value, err)
UserCalls(e, ev, field, value, err) ==
    [i \in 1..Len(UserLst(e, ev)) |->
        [e |-> e, lid |-> UserLst(e, ev)[i].id, ev |-> ev,
         key |-> ents[e].key, field |-> field, value |-> value, err |-> err]]

\* this step delivers "error" on the parent channel of entry e
ParentStep(e, ev) ==
    /\ micro # <<>>
    /\ Head(micro).t = "emitEntry"
    /\ Head(micro).e = e
    /\ Head(micro).ev = ev
    /\ RunMicro

\* in this step the error err reaches entry e, raised by the entry itself
\* (_emitError) or sent on its parent channel
ErrorReaches(e, err) ==
    \/ err = Boom /\ DocSignalError(e)
    \/ err = Bang /\ ParentStep(e, "error")

\* the call record _emitDelete leaves behind
DelRec(e, src) ==
    [e |-> e, src |-> src, done |-> FALSE,
     to |-> {UserLst(e, "delete")[i].id : i \in 1..Len(UserLst(e, "delete"))},
     upto |-> 0, seen |-> 0]

\* --------------------------------------------------------------- C12
\* C12: an error that reaches a Pending entry rejects its deferred with
\* exactly that error, invokes no 'error' handler, and disposes the entry
\* in the same step: every 'delete' handler subscribed on the entry is
\* invoked once with the key, and when that emission completes the entry
\* has no listener left.
C12_Step ==
    /\ \A e \in EntIds : \A err \in {Boom, Bang} :
          (ents[e].d = "pending" /\ ErrorReaches(e, err)) =>
             /\ ents'[e].d = "rejected"
             /\ ents'[e].derr = err
             /\ eev' = eev \o UserCalls(e, "delete", "", 0, "")
             /\ dels' = Append(dels, DelRec(e, "error"))
    /\ \A i \in 1..Len(dels) :
          (dels[i].src = "error" /\ ~dels[i].done /\ dels'[i].done) =>
             ents'[dels[i].e].lst = <<>>

C12_PendingErrorDisposes == [][C12_Step]_vars

\* a Pending entry with a 'delete' handler was failed by an error; the
\* handler received the key and the listeners have been released
C12_Witness ==
    \E i \in 1..Len(dels) :
        /\ dels[i].src = "error"
        /\ dels[i].done
        /\ dels[i].to # {}
        /\ ents[dels[i].e].d = "rejected"
        /\ ents[dels[i].e].lst = <<>>
        /\ \E k \in 1..Len(eev) :
              /\ eev[k].e = dels[i].e
              /\ eev[k].ev = "delete"
              /\ eev[k].key = ents[dels[i].e].key
\* --------------------------------------------------------------- C13
\* C13: an error that reaches a Ready entry on which no delete was requested
\* invokes every 'error' handler subscribed on the entry exactly once with
\* {key, error} (none if there is none) and hands exactly one announcement
\* with that object to the collection, which announces it once (at once if
\* 'insert' was announced, else after it); the deferred stays fulfilled,
\* no delete is started, the map and the listeners are unchanged.
FwdOf(e, ev, field, value, err) ==
    [Job("fwd", e) EXCEPT !.ev = ev, !.key = ents[e].key, !.field = field,
                          !.value = value, !.err = err]

C13_Step ==
    /\ \A e \in EntIds : \A err \in {Boom, Bang} :
          ( /\ ents[e].d = "fulfilled"
            /\ \A i \in 1..Len(dels) : dels[i].e # e
            /\ ErrorReaches(e, err) ) =>
             /\ eev' = eev \o UserCalls(e, "error", "", 0, err)
             /\ ents'[e].d = "fulfilled" /\ ents'[e].p = ents[e].p
             /\ ents'[e].lst = ents[e].lst
             /\ db' = db /\ dels' = dels /\ cev' = cev
             /\ LET was == IF err = Bang THEN Tail(micro) ELSE micro
                     f == FwdOf(e, "error", "", 0, err)
                IN IF ents[e].p = "fulfilled"
                   THEN micro' = Append(was, f)
                        /\ ents'[e].preact = ents[e].preact
                   ELSE micro' = was
                        /\ ents'[e].preact = Append(ents[e].preact, f)
    /\ ( /\ micro # <<>>
          /\ Head(micro).t = "fwd"
          /\ Head(micro).ev = "error"
          /\ RunMicro ) =>
             /\ Len(cev') = Len(cev) + 1
             /\ cev'[Len(cev')].ev = "error"
             /\ cev'[Len(cev')].id = Head(micro).e
             /\ cev'[Len(cev')].key = Head(micro).key
             /\ cev'[Len(cev')].err = Head(micro).err

C13_ReadyErrorNotifies == [][C13_Step]_vars

\* an error reached an inserted entry: its 'error' handler got {key, error},
\* the collection announced it once, the entry is Ready and in the map
C13_Witness ==
    \E e \in EntIds : \E k \in 1..Len(eev) : \E i \in 1..Len(cev) :
        /\ eev[k].e = e /\ eev[k].ev = "error"
        /\ eev[k].key = ents[e].key
        /\ cev[i].id = e /\ cev[i].ev = "error"
        /\ cev[i].key = ents[e].key /\ cev[i].err = eev[k].err
        /\ Cardinality(Events("error", e)) = 1
        /\ ents[e].d = "fulfilled" /\ ents[e].p = "fulfilled"
        /\ db[ents[e].key] = e
        /\ dels = <<>>
\* --------------------------------------------------------------- C14
\* C14: the first _resolved or _emitError call on an entry settles its
\* deferred (fulfilled, or rejected with the error of that call); no later
\* step changes the outcome, isPending or the error, and the ready promise
\* only ever takes the outcome of the deferred.
C14_Inv ==
    \A e \in EntIds :
        /\ ents[e].p # "pending" => ents[e].p = ents[e].d
        /\ ents[e].d = "rejected" <=> ents[e].derr # ""

C14_Step ==
    \A e \in EntIds :
        /\ ents[e].d # "pending" =>
              (ents'[e].d = ents[e].d /\ ents'[e].derr = ents[e].derr)
        /\ ents[e].p # "pending" => ents'[e].p = ents[e].p
        /\ (ents[e].d = "pending" /\ DocResolved(e)) =>
              ents'[e].d = "fulfilled"
        /\ \A err \in {Boom, Bang} :
              (ents[e].d = "pending" /\ ErrorReaches(e, err)) =>
                 (ents'[e].d = "rejected" /\ ents'[e].derr = err)

C14_SettlesOnce == []C14_Inv /\ [][C14_Step]_vars

\* an error reached an entry that was already Ready and was announced by
\* the collection: the ready promise is still fulfilled
C14_Witness ==
    \E e \in EntIds :
        /\ ents[e].mode = "wait"
        /\ ents[e].d = "fulfilled"
        /\ ents[e].p = "fulfilled"
        /\ Events("error", e) # {}
\* --------------------------------------------------------------- C15
\* C15: assigning a reactive field the value it holds (compared with ===)
\* changes nothing and invokes no handler; assigning another value stores
\* it, leaves the other field alone and invokes every subscribed 'update'
\* handler exactly once with {key, field, value}.
C15_Step ==
    \A e \in EntIds : \A a \in FieldArgs :
        DocSetField(e, a[1], a[2]) =>
            IF ents[e].fields[a[1]] = a[2]
            THEN UNCHANGED <<db, ents, calls, micro, ticks, cev, dels, rdy,
                             pful, eev, nreg>>
            ELSE /\ ents'[e].fields = [ents[e].fields EXCEPT ![a[1]] = a[2]]
                 /\ eev' = eev \o UserCalls(e, "update", a[1], a[2], "")

C15_UpdateOnChange == [][C15_Step]_vars

\* the age of an entry was assigned 30 and its subscribed 'update' handler
\* received {key, "age", 30} exactly once
C15_Witness ==
    /\ Len(ents) = 1
    /\ ents[1].mode = "ready"
    /\ ents[1].fields = [gender |-> Female, age |-> 30]
    /\ eev = << [e |-> 1, lid |-> 1, ev |-> "update", key |-> "a",
                 field |-> "age", value |-> 30, err |-> ""] >>
    /\ dels = <<>> /\ micro = <<>> /\ ticks = <<>>
    /\ \A i \in 1..Len(cev) : cev[i].ev \in {"insert", "update"}
\* --------------------------------------------------------------- C16
\* C16: a field change on an entry that was inserted and on which no delete
\* was requested hands the collection exactly one announcement carrying
\* {key, field, value}, which the collection announces exactly once as
\* 'update'; every 'update' the collection announces carries the key of
\* the entry that changed and a field value that entry was assigned, and
\* there are never more announcements than changes.
FwdJobs(e, ev) ==
    Cardinality({i \in 1..Len(micro) :
                    micro[i].t = "fwd" /\ micro[i].e = e /\ micro[i].ev = ev})
    + Cardinality({i \in 1..Len(ents[e].preact) :
                    ents[e].preact[i].t = "fwd" /\ ents[e].preact[i].ev = ev})

C16_Inv ==
    /\ \A i \in 1..Len(cev) :
          cev[i].ev = "update" =>
             /\ cev[i].key = ents[cev[i].id].key
             /\ cev[i].field = "age"
             /\ cev[i].value = ents[cev[i].id].fields.age
    /\ \A e \in EntIds :
          Cardinality(Events("update", e)) + FwdJobs(e, "update")
             <= (IF ents[e].fields.age = Undef THEN 0 ELSE 1)

C16_Step ==
    /\ \A e \in EntIds : \A a \in FieldArgs :
          ( /\ Events("insert", e) # {}
            /\ \A i \in 1..Len(dels) : dels[i].e # e
            /\ ents[e].fields[a[1]] # a[2]
            /\ DocSetField(e, a[1], a[2]) ) =>
             /\ micro' = Append(micro, FwdOf(e, "update", a[1], a[2], ""))
             /\ cev' = cev
    /\ ( /\ micro # <<>>
          /\ Head(micro).t = "fwd"
          /\ Head(micro).ev = "update"
          /\ RunMicro ) =>
             /\ Len(cev') = Len(cev) + 1
             /\ SubSeq(cev', 1, Len(cev)) = cev
             /\ cev'[Len(cev')].ev = "update"
             /\ cev'[Len(cev')].id = Head(micro).e
             /\ cev'[Len(cev')].key = Head(micro).key
             /\ cev'[Len(cev')].field = Head(micro).field
             /\ cev'[Len(cev')].value = Head(micro).value

C17_CtorFieldsNotForwarded ==
    /\ \A i \in 1..Len(cev) :
          /\ cev[i].ev = "update" => cev[i].field # "gender"
          /\ cev[i].ev = "insert" => cev[i].snap.gender = CtorFields.gender
    /\ \A i \in 1..Len(micro) :
          micro[i].t = "fwd" => micro[i].field # "gender"
    /\ \A e \in EntIds : \A i \in 1..Len(ents[e].preact) :
          ents[e].preact[i].t = "fwd" => ents[e].preact[i].field # "gender"

\* 'insert' was announced with the gender set by the constructor, and a
\* later assignment of the age is the only 'update' announced
C17_Witness ==
    \E e \in EntIds : \E i \in 1..Len(cev) :
        /\ cev[i].ev = "insert" /\ cev[i].id = e
        /\ cev[i].snap.gender = Female
        /\ Events("update", e) # {}
        /\ \A j \in Events("update", e) : cev[j].field = "age"
\* --------------------------------------------------------------- C18
\* C18: once a delete requested on an entry (_emitDelete) has completed, a
\* handler subscribed on the entry after that is never invoked.
C18_Claim ==
    \A i \in 1..Len(dels) :
        (dels[i].src = "request" /\ dels[i].done) =>
            \A k \in 1..Len(eev) :
                eev[k].e = dels[i].e => eev[k].lid <= dels[i].upto
\* --------------------------------------------------------------- C19
\* C19: _emitDelete invokes every 'delete' handler subscribed on the entry
\* at the time of the call with the entry's key, before its promise
\* fulfils; after its promise has fulfilled no handler subscribed before
\* that moment is invoked again, whatever its event.
C19_DeleteNotifiesThenReleases ==
    \A i \in 1..Len(dels) :
        dels[i].src = "request" =>
            /\ \A l \in dels[i].to :
                  \E k \in 1..Len(eev) :
                      /\ eev[k].e = dels[i].e
                      /\ eev[k].lid = l
                      /\ eev[k].ev = "delete"
                      /\ eev[k].key = ents[dels[i].e].key
                      /\ dels[i].done => k <= dels[i].seen
            /\ dels[i].done =>
                  \A k \in (dels[i].seen + 1)..Len(eev) :
                      eev[k].e = dels[i].e => eev[k].lid > dels[i].upto

\* a delete was requested on an entry with a 'delete' handler, which got
\* the key; after the request completed a second delete was requested and
\* the handler was not invoked again
C19_Witness ==
    \E i, j \in 1..Len(dels) :
        /\ i < j
        /\ dels[i].e = dels[j].e
        /\ dels[i].src = "request" /\ dels[j].src = "request"
        /\ dels[i].done
        /\ dels[i].to # {}
        /\ dels[j].to = {}
        /\ Len(eev) = 1
        /\ eev[1].ev = "delete"
        /\ eev[1].key = ents[dels[i].e].key
\* --------------------------------------------------------------- C20
\* C20: in every reachable state and for every entry, an error (a delete)
\* delivered on the entry's parent channel leaves the program in the same
\* state (deferred, invocations of handlers, announcements queued, deletes
\* started, listeners) as _emitError with that error (_emitDelete) called
\* by the entry itself.
NoSrc(S) ==
    [S EXCEPT !.dels = [i \in 1..Len(S.dels) |->
                           [S.dels[i] EXCEPT !.src = ""]]]

C23_Claim ==
    \A k \in DbKeys :
        hasEntry(St, k) =>
            /\ db[k] \in EntIds
            /\ ents[db[k]].key = k
\* --------------------------------------------------------------- C24
\* C24: as long as an entry constructed by _addEntry is Pending, hasEntry
\* fulfils for its key (so that a further _addEntry for the key fails),
\* the map holds that entry under the key (getEntry yields it), items()
\* yields it and the collection snapshot has its key.
C24_Claim ==
    \A e \in EntIds :
        ents[e].d = "pending" =>
            /\ hasEntry(St, ents[e].key)
            /\ db[ents[e].key] = e
            /\ \E i \in 1..Len(items(St)) : items(St)[i] = e
            /\ ents[e].key \in DOMAIN read(St)

\* --------------------------------------------------------------- C25
\* C25: the collection snapshot maps exactly the keys in the map to the
\* snapshots of the entries stored under them; the key of an entry whose
\* delete has completed, or whose failure has settled, is not in it unless
\* the key has been allocated to another entry.
C25_Claim ==
    /\ DOMAIN read(St) = {k \in Keys : db[k] > 0}
    /\ \A k \in DOMAIN read(St) :
          read(St)[k] = [key |-> k, gender |-> ents[db[k]].fields.gender,
                         age |-> ents[db[k]].fields.age]
    /\ \A i \in 1..Len(dels) :
          (dels[i].done /\ dels[i].src \in {"request", "parent"}) =>
             ( ents[dels[i].e].key \in DOMAIN read(St)
                  => db[ents[dels[i].e].key] # dels[i].e )
    /\ \A e \in EntIds :
          (ents[e].p = "rejected" /\ ~HasJob(micro, "insertRej", e)) =>
             ( ents[e].key \in DOMAIN read(St) => db[ents[e].key] # e )
\* --------------------------------------------------------------- C21
\* the emitter scopes: the collection's _ee and each entry's
Scopes == {Coll} \cup EntIds

\* the registrations of handler fn for ev in scope e whose unsubscribe
\* function has not been called
LiveRegs(e, ev, fn) ==
    {r \in 1..Len(hnd) : /\ hnd[r].e = e /\ hnd[r].ev = ev
                          /\ hnd[r].fn = fn /\ ~hnd[r].off}

\* the invocations of handler fn for ev in scope e made by this step
NewCalls(e, ev, fn) ==
    {i \in (Len(eev) + 1)..Len(eev') :
        /\ eev'[i].e = e /\ eev'[i].ev = ev
        /\ hnd[eev'[i].lid].fn = fn}

\* C21: an event published in a scope invokes a handler function at most
\* once for each of its registrations there whose unsubscribe function has
\* not been called; a handler whose every registration was unsubscribed,
\* once or several times, is not invoked at all.
C21_Step ==
    \A e \in Scopes, ev \in {"update", "error"}, fn \in Handlers :
        Cardinality(NewCalls(e, ev, fn)) <= Cardinality(LiveRegs(e, ev, fn))

ListOf(e) == IF e = Coll THEN clst ELSE ents[e].lst

\* C22: calling an unsubscribe function, once or again, takes exactly its
\* own registration off: for every handler function, event and scope, as
\* many instances are registered as there are registrations whose
\* unsubscribe function has not been called.
C22_Claim ==
    \A e \in Scopes, ev \in {"update", "error"}, fn \in Handlers :
        Cardinality(Matching(ListOf(e), ev, fn))
            = Cardinality(LiveRegs(e, ev, fn))
\* --------------------------------------------------------------- C26
\* C26: the snapshot of a document is its key plus exactly its reactive
\* fields, each with the value it holds at the time of the call; a
\* document without reactive fields yields only its key.
C26_Claim ==
    \A o \in 1..Len(objs) :
        getStateOf(objs[o]) =
            [key |-> objs[o].key,
             fields |-> [f \in ReactiveFields(objs[o].cls) |->
                            objs[o].vals[f]]]
\* the same for the documents of the classes that extend ReactiveDocument
\* directly
C26_FlatClasses ==
    \A o \in 1..Len(objs) :
        objs[o].cls # Derived =>
            getStateOf(objs[o]) =
                [key |-> objs[o].key,
                 fields |-> [f \in ReactiveFields(objs[o].cls) |->
                                objs[o].vals[f]]]
\* --------------------------------------------------------------- C29
\* C29: assigning a field of one entry changes that field of that entry
\* only and invokes the 'update' subscribers of that entry only, each once
\* when the value changes: the fields and the subscribers of every other
\* entry are as they were and none of them is invoked.
C29_Step ==
    \A e \in EntIds, v \in AgeVals \cup {Undef} :
        IsoSetField(e, v) =>
            /\ ents'[e].fields = [ents[e].fields EXCEPT !.age = v]
            /\ \A x \in EntIds \ {e} :
                  /\ ents'[x].fields = ents[x].fields
                  /\ ents'[x].lst = ents[x].lst
            /\ \A i \in (Len(eev) + 1)..Len(eev') :
                  /\ eev'[i].e = e
                  /\ eev'[i].lid \in UserIds(St, e, "update")
            /\ Len(eev') - Len(eev) =
                  IF v = ents[e].fields.age THEN 0
                  ELSE Cardinality(UserIds(St, e, "update"))

C29_EntriesIsolated == [][C29_Step]_vars

\* two entries, each with a subscriber for 'update'; one entry has been
\* assigned an age and its subscriber alone has been invoked
C29_Witness ==
    \E e \in EntIds, x \in EntIds :
        /\ e # x
        /\ UserIds(St, e, "update") # {} /\ UserIds(St, x, "update") # {}
        /\ ents[e].fields.age = 30 /\ ents[x].fields.age = Undef
        /\ \E i \in 1..Len(eev) : eev[i].e = e /\ eev[i].value = 30
        /\ \A i \in 1..Len(eev) : eev[i].e # x
\* --------------------------------------------------------------- C30
\* C30: _resolveEntry is get-or-allocate.  A call that found the key
\* resolves to the entry stored under it and makes no _addEntry call; a
\* call that did not makes one, for its key; and however many calls are
\* made for a key, no _addEntry call made for it fails and no two entries
\* are constructed for it.
C30_Claim ==
    /\ \A r \in 1..Len(rslv) :
          /\ rslv[r].st = "got" =>
                /\ rslv[r].via = 0
                /\ ents[rslv[r].val].key = rslv[r].key
          /\ rslv[r].st = "alloc" =>
                /\ calls[rslv[r].via].key = rslv[r].key
                /\ calls[rslv[r].via].st # "rejected"
    /\ \A e1 \in EntIds, e2 \in EntIds :
          ents[e1].key = ents[e2].key => e1 = e2
\* --------------------------------------------------------------- C27
\* C27: an iteration of items() yields entries that were in the map when
\* items() was called, none twice, and once it is finished it has yielded
\* every one of them, whatever was allocated or removed in the meantime.
C27_Claim ==
    \A i \in 1..Len(its) :
        /\ \A n \in 1..Len(its[i].out) : its[i].out[n] \in its[i].at
        /\ \A n \in 1..Len(its[i].out), k \in 1..Len(its[i].out) :
              its[i].out[n] = its[i].out[k] => n = k
        /\ its[i].done =>
              its[i].at = {its[i].out[n] : n \in 1..Len(its[i].out)}

\* the part of C27 about removals alone: a finished iteration has yielded
\* every entry that was in the map when items() was called
C27_RemovedStillYielded ==
    \A i \in 1..Len(its) :
        its[i].done =>
            its[i].at \subseteq {its[i].out[n] : n \in 1..Len(its[i].out)}
\* --------------------------------------------------------------- C28
\* the invocations of collection-scope handlers made by this step
NewCollCalls == {i \in (Len(eev) + 1)..Len(eev') : eev'[i].e = Coll}

\* C28: dispose() invokes every handler subscribed with onDispose, once;
\* when the promise it returned fulfils they have all been invoked; and
\* from then on no handler of the collection is invoked for 'insert',
\* 'update', 'error', 'delete' or 'dispose', no _addEntry call is accepted
\* and no entry is constructed for a call made after that.
C28_Inv ==
    disp.st = "disposed" =>
        /\ \A r \in disp.to :
              \E i \in 1..disp.seen :
                  eev[i].e = Coll /\ eev[i].ev = "dispose" /\ eev[i].lid = r
        /\ \A c \in CallIds :
              calls[c].err = ErrDisposed =>
                  calls[c].st = "rejected" /\ calls[c].val = 0

C28_Step ==
    /\ Dispose =>
          /\ \A r \in CollIds(St, "dispose") :
                Cardinality({i \in NewCollCalls :
                    eev'[i].ev = "dispose" /\ eev'[i].lid = r}) = 1
          /\ \A i \in NewCollCalls :
                eev'[i].ev = "dispose"
                    /\ eev'[i].lid \in CollIds(St, "dispose")
    /\ disp.st = "disposed" =>
          /\ NewCollCalls = {}
          /\ \A c \in (Len(calls) + 1)..Len(calls') :
                calls'[c].st = "rejected"
          /\ (Len(calls') > Len(calls)) => ents' = ents /\ db' = db

C28_DisposeTerminates == []C28_Inv /\ [][C28_Step]_vars

\* a disposed collection whose onDispose subscriber was invoked, with an
\* entry that announced an update after the disposal to an emitter that
\* still had an 'update' subscriber when dispose() was called, and an
\* allocation refused
C28_Witness ==
    /\ disp.st = "disposed"
    /\ disp.to # {}
    /\ \E r \in 1..Len(hnd) : hnd[r].e = Coll /\ hnd[r].ev = "update"
    /\ \E i \in 1..Len(cev) : cev[i].ev = "update"
    /\ \A i \in 1..Len(eev) : eev[i].ev # "update"
    /\ \E c \in CallIds : calls[c].err = ErrDisposed
\* --------------------------------------------------------------- C31
\* C31: an _emitEntry / _emitEntryError call made for a key under which no
\* entry is stored fails with NotFound; a call that delivers its event
\* delivers it to an entry of that key; the job that delivers it leaves
\* every other entry as it was, and the job that finds the key absent
\* invokes no listener of an entry or of the collection.
C31_Inv ==
    \A c \in 1..Len(emits) :
        /\ emits[c].at = 0 => emits[c].st \in {"pending", "NotFound"}
        /\ emits[c].st = "delivered" =>
              ents[emits[c].to].key = emits[c].key

C31_Step ==
    (micro # <<>> /\ micro' # micro /\ emits' # emits) =>
        /\ Head(micro).t = "emitEntry" =>
              \A x \in EntIds \ {Head(micro).e} : ents'[x] = ents[x]
        /\ Head(micro).t = "getEntry" =>
              ents' = ents /\ cev' = cev /\ eev' = eev /\ db' = db

C31_Claim == []C31_Inv /\ [][C31_Step]_vars

\* the same for the keys that are not property names of every Array
C31_EntryKeys ==
    /\ [](\A c \in 1..Len(emits) :
            emits[c].key # LengthKey =>
                /\ emits[c].at = 0 =>
                      emits[c].st \in {"pending", "NotFound"}
                /\ emits[c].st = "delivered" =>
                      ents[emits[c].to].key = emits[c].key)
    /\ [][C31_Step]_vars
\* --------------------------------------------------------------- C32
\* C32: _resetDeferred(d) leaves _d and _promise (hence promise and
\* isPending) as they are; they are replaced, by d and a promise adopting
\* d, only by the reaction that runs once the promise current at the call
\* has fulfilled, and then the promise the call returned fulfils; if that
\* promise rejects, d is never installed and the promise the call
\* returned rejects.
C32_Inv ==
    \A r \in 1..Len(rdoc.resets) :
        LET on == rdoc.proms[rdoc.resets[r].on].st
        IN /\ rdoc.resets[r].st = "fulfilled" => on = "fulfilled"
           /\ rdoc.resets[r].st = "rejected" => on = "rejected"
           /\ on = "rejected" => rdoc.d # rdoc.resets[r].d
           /\ on = "pending" =>
                 rdoc.resets[r].st = "pending" /\ rdoc.d # rdoc.resets[r].d

C32_Step ==
    (rdoc.p # 0 /\ (rdoc'.d # rdoc.d \/ rdoc'.p # rdoc.p)) =>
        \E r \in 1..Len(rdoc.resets) :
            /\ rdoc.resets[r].st = "pending"
            /\ rdoc'.resets[r].st = "fulfilled"
            /\ rdoc.proms[rdoc.resets[r].on].st = "fulfilled"
            /\ rdoc'.d = rdoc.resets[r].d
            /\ rdoc'.proms[rdoc'.p].of = rdoc.resets[r].d
            /\ Len(rdoc'.resets) = Len(rdoc.resets)

C32_ResetAfterFulfilment == []C32_Inv /\ [][C32_Step]_vars

\* one _resetDeferred call took effect after the promise fulfilled, and a
\* later one failed because the promise it waited for rejected
C32_Witness ==
    \E r1 \in 1..Len(rdoc.resets), r2 \in 1..Len(rdoc.resets) :
        /\ rdoc.resets[r1].st = "fulfilled"
        /\ rdoc.resets[r2].st = "rejected"
        /\ rdoc.d = rdoc.resets[r1].d
\* --------------------------------------------------------------- C33
\* entry e has been deleted (_emitDelete was called on it) or has failed
\* its initialization (its deferred was rejected)
Disposed(es, ds, e) ==
    \/ es[e].d = "rejected"
    \/ \E i \in 1..Len(ds) : ds[i].e = e

\* C33: the removal run for an entry that is deleted or fails its
\* initialization takes only that entry out of the map: an entry leaves
\* the map only when it has itself been deleted or has failed, and a
\* 'delete' is announced for a key only when the entry stored under it
\* has.
C33_Step ==
    \A k \in Keys \ {EmptyKey} :
        LET e == db[k]
        IN /\ (e > 0 /\ db'[k] = 0) => Disposed(ents', dels', e)
           /\ (e > 0 /\ Len(cev') > Len(cev)
                     /\ cev'[Len(cev')].ev = "delete"
                     /\ cev'[Len(cev')].key = k) =>
                 Disposed(ents', dels', e)

C33_Claim == [][C33_Step]_vars
\* --------------------------------------------------------------- C34
\* the collection has announced ev for entry e
Announced(ev, e) == \E i \in 1..Len(cev) : cev[i].ev = ev /\ cev[i].id = e

\* C34: every entry whose 'insert' has been announced and whose 'delete'
\* has not is stored in the map under its own key, and every Ready entry
\* stored in the map is stored under its own key, where getEntry finds it.
C34_Claim ==
    /\ \A e \in 1..Len(ents) :
          (Announced("insert", e) /\ ~Announced("delete", e)) =>
              db[ents[e].key] = e
    /\ \A k \in Keys \ {EmptyKey} :
          (db[k] > 0 /\ ents[db[k]].d = "fulfilled") => ents[db[k]].key = k
\* --------------------------------------------------------------- C35
\* the positions in cev of the announcements of ev made for entry e
AnnouncedAt(ev, e) == {i \in 1..Len(cev) : cev[i].ev = ev /\ cev[i].id = e}

\* 'delete' is announced at most once for an entry
C35_DeleteOnce ==
    \A e \in 1..Len(ents) :
        \A i \in AnnouncedAt("delete", e), j \in AnnouncedAt("delete", e) :
            i = j

\* no 'update' or 'error' of an entry is announced after its 'delete'
C35_NothingAfterDelete ==
    \A e \in 1..Len(ents) :
        \A i \in AnnouncedAt("delete", e),
           j \in AnnouncedAt("update", e) \cup AnnouncedAt("error", e) :
            j < i

\* every 'update', 'error' and 'delete' of an entry follows its 'insert'
C35_AfterInsert ==
    \A e \in 1..Len(ents) :
        \A j \in AnnouncedAt("update", e) \cup AnnouncedAt("error", e)
                   \cup AnnouncedAt("delete", e) :
            \E i \in AnnouncedAt("insert", e) : i < j

\* C35: for every entry the collection announces 'insert', then any
\* number of 'update' and 'error', then at most one 'delete': 'delete' at
\* most once, only after the entry's 'insert', and no 'update' or 'error'
\* of the entry after it.
C35_Claim == C35_DeleteOnce /\ C35_NothingAfterDelete /\ C35_AfterInsert
\* --------------------------------------------------------------- C36
\* the 'update' and 'error' events entry e emitted, as its own subscribers
\* received them, and those the collection announced for it
EmittedBy(e) ==
    LET s == SelectSeq(eev, LAMBDA r : r.e = e /\ r.ev \in {"update", "error"})
    IN [i \in 1..Len(s) |-> <<s[i].ev, s[i].field, s[i].value, s[i].err>>]

ForwardedFor(e) ==
    LET s == SelectSeq(cev, LAMBDA r : r.id = e /\ r.ev \in {"update", "error"})
    IN [i \in 1..Len(s) |-> <<s[i].ev, s[i].field, s[i].value, s[i].err>>]

\* C36: the collection announces the 'update' and 'error' events of an
\* entry in the order in which the entry emitted them: what it has
\* announced so far is an initial part of what the entry has emitted.
C36_ForwardedInOrder ==
    \A e \in 1..Len(ents) :
        /\ Len(ForwardedFor(e)) <= Len(EmittedBy(e))
        /\ \A i \in 1..Len(ForwardedFor(e)) :
              ForwardedFor(e)[i] = EmittedBy(e)[i]

\* an error and then an update of a Ready entry have both been announced
C36_Witness ==
    \E e \in 1..Len(ents) :
        /\ Len(ForwardedFor(e)) = 2
        /\ ForwardedFor(e)[1][1] = "error"
        /\ ForwardedFor(e)[2][1] = "update"
        /\ ents[e].mode = "ready"
\* --------------------------------------------------------------- C37
\* the _addEntry calls made for a key that an earlier entry had held and
\* had been removed from (deleted, or failed) when the call was made
Reallocations ==
    {c \in 1..Len(calls) :
        /\ ~calls[c].found
        /\ \E b \in 1..(c - 1) :
              /\ calls[b].key = calls[c].key
              /\ calls[b].st = "fulfilled"
              /\ Disposed(ents, dels, calls[b].val)}

\* such a call succeeds with a fresh entry, which it stores, and whose
\* 'insert' is announced when the reaction of its ready promise has run
C37_Reallocated ==
    /\ \A c \in Reallocations :
          calls[c].st # "pending" =>
              /\ calls[c].st = "fulfilled"
              /\ \A b \in 1..(c - 1) : calls[b].val < calls[c].val
              /\ ents[calls[c].val].key = calls[c].key
              /\ ents[calls[c].val].resolved =>
                    Cardinality(AnnouncedAt("insert", calls[c].val)) = 1
    /\ [][\A c \in Reallocations :
             (calls[c].st = "pending" /\ calls'[c].st # "pending") =>
                 db'[calls[c].key] = calls'[c].val]_vars

\* nothing but its own deletion or failure takes the new entry out of the
\* map or has its key announced as deleted
C37_Undisturbed ==
    \A c \in Reallocations :
        LET e == calls[c].val
            k == calls[c].key
            gone == \/ db'[k] = 0
                    \/ /\ Len(cev') > Len(cev)
                       /\ cev'[Len(cev')].ev = "delete"
                       /\ cev'[Len(cev')].key = k
        IN (calls[c].st = "fulfilled" /\ db[k] = e /\ gone) =>
               Disposed(ents', dels', e)

\* C37: once an entry of key k has been deleted or has failed and has
\* been removed from the map, a new allocate(k, ...) succeeds, stores a
\* fresh entry and has its 'insert' announced, and nothing the earlier
\* entry does afterwards removes or announces the deletion of the new one.
C37_Claim == C37_Reallocated /\ [][C37_Undisturbed]_vars
\* --------------------------------------------------------------- C38
\* a read-only call, or a reaction of one, is taken
ReadStep ==
    \/ \E k \in {"a", LengthKey} : ReadHasEntry(k) \/ ReadGetEntry(k)
    \/ ReadCollection
    \/ \E e \in 1..Len(ents) : ReadEntry(e)
    \/ \E o \in 1..Len(objs) : ReadState(o)
    \/ ReadItems
    \/ \E i \in 1..Len(its) : ItemsNext(i)
    \/ ReadJob

\* C38: hasEntry, getEntry, items, the collection's read and a document's
\* getState leave the map, every entry's state, the field values and the
\* subscriber lists as they are and have nothing announced or delivered.
C38_Step ==
    ReadStep =>
        /\ db' = db
        /\ ents' = ents
        /\ \A o \in 1..Len(objs) : objs'[o].vals = objs[o].vals
        /\ Len(objs') = Len(objs)
        /\ clst' = clst
        /\ hnd' = hnd
        /\ cev' = cev
        /\ eev' = eev
        /\ dels' = dels

C38_ReadsChangeNothing == [][C38_Step]_vars

\* every kind of read has been made: a getEntry that found an entry, a
\* generator that yielded one, and getState on a document whose
\* properties had not been assigned gave it its store
C38_Witness ==
    /\ \E c \in 1..Len(reads) :
          reads[c].op = "getEntry" /\ reads[c].st = "fulfilled"
                                   /\ reads[c].val > 0
    /\ \E c \in 1..Len(reads) : reads[c].op = "getState"
    /\ \E o \in 1..Len(objs) : objs[o].cls = Plain /\ objs[o].store
    /\ \E i \in 1..Len(its) : its[i].out # <<>>
\* --------------------------------------------------------------- C39
\* how many times 'removed' has been announced for item i
RemovedCount(i) ==
    Cardinality({n \in 1..Len(legacy.removed) : legacy.removed[n] = i})

\* item i has emitted close, or the rejection of its ready promise has
\* reached the service
Redundant(i) == legacy.items[i].closed \/ legacy.items[i].caught

\* a redundant item is no longer stored
C39_RemovedFromStorage ==
    \A i \in 1..Len(legacy.items) : Redundant(i) => legacy.db # i

\* an item that only closes, however often, is announced as removed once
C39_CloseOnly ==
    \A i \in 1..Len(legacy.items) :
        (legacy.items[i].closed /\ legacy.items[i].d # "rejected") =>
            RemovedCount(i) = 1

\* C39: once an item has emitted close or its ready promise has
\* rejected, it is no longer in storage and 'removed' has been announced
\* for it exactly once, however close and failure are combined or
\* repeated; 'removed' is never announced for it more than once.
C39_Claim ==
    \A i \in 1..Len(legacy.items) :
        /\ RemovedCount(i) <= 1
        /\ Redundant(i) => (legacy.db # i /\ RemovedCount(i) = 1)
====
